---- MODULE Spec2Model ----
(***************************************************************************)
(* Model of the harvesting scheduler and ingestion pipeline of the Nolus   *)
(* ambassador dashboard: the SQLite store (db_service.py), the aggregate   *)
(* cache and its callers (local_data_service.py, ambassador_service.py)    *)
(* and the scraper scheduler (x_scraper_scheduler.py).                     *)
(*                                                                         *)
(* Time is in whole seconds.  SQL NULL / Python None is NULL for text      *)
(* columns and NullInt for integer columns.                                *)
(***************************************************************************)
EXTENDS Integers, Sequences, FiniteSets, TLC

VARIABLES
    x_posts,    \* committed rows of table x_posts (db_service.py:52-67)
    last,       \* the last completed store call: its name, arguments, outcome
    now,        \* the wall clock, datetime.now(), in seconds
    \* XScraperScheduler fields (x_scraper_scheduler.py:40-58)
    consecutive_failures,
    last_success_time,
    total_processed,
    total_success,
    total_failed,
    max_consecutive_failures,
    blocking_base_wait_minutes,
    blocking_max_wait_hours,
    sheets_service, \* the class of the object self.sheets_service holds
    scraper,        \* self.scraper: 0 for None, else the session's number
    \* the scheduler's control state
    pc,             \* where run_continuous / process_current_month_tweets is
    posts,          \* the work list of the run
    idx,            \* i of "for i, post in enumerate(posts, 1)"
    chunks_left,    \* iterations left of the chunk loop of _wait_for_unblock
    stats,          \* the dictionary the last run returned
    \* the extractor's browser sessions
    open_drivers,   \* sessions whose driver has not been quit
    sessions,       \* number of browsers started by XScraper constructors so far
    \* history of the current run, kept for the properties
    trail,          \* tweet ids handed to _scrape_single_tweet, in order
    outcome,        \* what the last _scrape_single_tweet call met
    streak,         \* blocking-class failures in a row since the last success
    error,          \* what made the run raise, if it did
    runs,           \* runs started so far
    events,         \* what has happened to the current item since the detector
                    \* said blocked: the wait, the sessions closed, opened, used
    \* the process around the scheduler (x_scraper_scheduler.py:346-366)
    mode,           \* the mode argument of main(): "once" or "continuous"
    exit_status,    \* the status the process exited with, NullInt while it runs
    stop,           \* "none", or "sent" once a KeyboardInterrupt has been raised
    \* a second invocation of process_current_month_tweets on the same object
    pc2,            \* where it is
    posts2,         \* its work list
    idx2,           \* its loop index
    \* results of the detector and backoff functions called on their own
    verdict,        \* "none", or the str() of what _is_blocked returned
    wait_seconds,
    \* LocalDataService (local_data_service.py:30-44) and its callers
    cache,          \* self._cache: key -> (value, timestamp), or NoEntry
    reader,         \* the thread inside get_x_leaderboard: its position, locals
    writer,         \* the thread inside add_content: its position
    got,            \* what the _get_cache call of the last step found and returned
    versions,       \* upserts committed so far; the last one whose caller returned
    ticks,          \* clock steps taken so far
    \* callers running concurrently (db_service.py, local_data_service.py)
    db_lock,        \* self._lock of each DatabaseService: the caller holding it, or 0
    conn,           \* each writing caller: where it is in its store call, and
                    \* the uncommitted rows of its connection
    write_txn,      \* the caller whose connection holds SQLite's write lock, or 0
    fetched,        \* what the get_x_posts call of the last step returned
    cache_lock,     \* self._cache_lock: the thread holding it, or 0
    cache_call,     \* each cache thread: the operation it is in, and where
    \* NolusBot (discord_bot.py:102-114)
    scrape_lock,    \* self.scrape_lock
    task,           \* each invocation of scrape_posts_task: where it is, its locals
    user_submission_timestamps, \* user id -> accepted timestamps still kept
    rate_call,      \* the last _check_rate_limit call: its user, its answer
    accepted_log    \* user id -> every timestamp _check_rate_limit accepted

storeVars == <<x_posts, last>>
cfgVars == <<max_consecutive_failures, blocking_base_wait_minutes,
             blocking_max_wait_hours, sheets_service>>
detectorVars == <<consecutive_failures, last_success_time>>
counterVars == <<total_processed, total_success, total_failed>>
sessionVars == <<scraper, open_drivers, sessions>>
loopVars == <<pc, posts, idx, chunks_left, stats>>
histVars == <<trail, outcome, streak, error, runs>>
pureVars == <<verdict, wait_seconds>>
procVars == <<mode, exit_status, stop>>
secondVars == <<pc2, posts2, idx2>>
concVars == <<db_lock, conn, write_txn, fetched, cache_lock, cache_call>>
botVars == <<scrape_lock, task, user_submission_timestamps, rate_call, accepted_log>>
schedVars == <<cfgVars, concVars, botVars, detectorVars, counterVars, sessionVars, loopVars,
               histVars, pureVars, procVars, secondVars, events>>
cacheVars == <<cache, reader, writer, got, versions, ticks>>
seqVars == <<cfgVars, botVars, detectorVars, counterVars, sessionVars, loopVars,
             histVars, pureVars, procVars, secondVars, events, cacheVars>>
vars == <<x_posts, last, now, schedVars, cacheVars>>

-----------------------------------------------------------------------------
(* Bounds of the model *)

\* longest batch handed to one upsert_x_posts call
MaxBatch == 2
\* largest failure count the detector and the backoff are called with
MaxFailures == 31
\* most submissions in the store when the scheduler starts
MaxPosts == 2
\* most runs the scheduler starts
MaxRuns == 2
\* submissions in the store of the scheduler that starts with a backlog
BacklogPosts == 6
\* most clock steps between the cache operations
MaxTicks == 3
\* most upserts the cache's writers commit
MaxWrites == 2

\* configuration defaults (config_loader.py)
DefaultMaxFailures == 5
DefaultBaseWaitMinutes == 30
DefaultMaxWaitHours == 8
scrape_delay_seconds == 5
schedule_interval_minutes == 1440
cache_ttl == 300
\* time.sleep(300) of run_continuous after an error
RetrySleepSeconds == 300

\* The model's clock starts two scheduling intervals before the month ends.
MonthEnd == schedule_interval_minutes * 60 * 2

-----------------------------------------------------------------------------
(* Values *)

NULL == "NULL"
NullInt == 0 - 1000000

TweetIds == {"1", "2"}

\* A post dictionary as handed to upsert_x_posts: every key of the INSERT.
MkPost(amb, url, tid, m, dp, sd, mon, yr) ==
    [ ambassador |-> amb, tweet_url |-> url, tweet_id |-> tid,
      impressions |-> m.impressions, likes |-> m.likes,
      retweets |-> m.retweets, replies |-> m.replies,
      date_posted |-> dp, submitted_date |-> sd, month |-> mon, year |-> yr ]

\* The four engagement counts a scrape or a submission carries.
ZeroMetrics == [impressions |-> 0, likes |-> 0, retweets |-> 0, replies |-> 0]
FullMetrics == [impressions |-> 90, likes |-> 7, retweets |-> 2, replies |-> 1]

\* The post dictionaries the store is driven with: for tweet 1 two posts that
\* differ in every column but tweet_id, a post for tweet 2, and a post whose
\* month is None (the column is NOT NULL).
PostInputs ==
    { MkPost("alice", "https://x.com/alice/status/1", "1", ZeroMetrics, 0, 0, "Nov", 2026),
      MkPost("bob", "https://twitter.com/bob/status/1", "1", FullMetrics, 1, 1, "Dec", 2026),
      MkPost("alice", "https://x.com/alice/status/2", "2", FullMetrics, 0, 0, "Nov", 2026),
      MkPost("bob", "https://x.com/bob/status/2", "2", ZeroMetrics, 1, 1, NULL, 2026) }

Batches == UNION { [1..n -> PostInputs] : n \in 1..MaxBatch }

Ambassadors == {"alice", "bob"}

\* The URLs of the submissions the scheduler works on, by row id.
WorkUrls == [k \in 1..7 |->
    CASE k = 1 -> "https://x.com/alice/status/1"
      [] k = 2 -> "https://x.com/alice/status/2"
      [] k = 3 -> "https://x.com/alice/status/3"
      [] k = 4 -> "https://x.com/alice/status/4"
      [] k = 5 -> "https://x.com/alice/status/5"
      [] k = 6 -> "https://x.com/alice/status/6"
      [] OTHER -> "https://x.com/alice/status/7"]

\* The URL content is submitted and scraped with.
ContentUrls == {WorkUrls[1]}

\* Clock readings the detector is called with: their differences include 10,
\* 30 and 31 minutes and one second either side of 30 minutes.
DetectorTimes == {0, 1, 2, 1260, 1801, 1860, 1861}

-----------------------------------------------------------------------------
(* DatabaseService: table x_posts *)

\* id INTEGER PRIMARY KEY AUTOINCREMENT: one more than the largest id used.
\* Rows are never deleted, so that is the largest id in the table.
NextId(rows) ==
    IF rows = {} THEN 1
    ELSE 1 + CHOOSE i \in {r.id : r \in rows} : \A r \in rows : r.id <= i

\* The NOT NULL columns of x_posts: a None in one of them aborts the statement.
ViolatesNotNull(post) ==
    \/ post.ambassador = NULL
    \/ post.tweet_url = NULL
    \/ post.tweet_id = NULL
    \/ post.month = NULL
    \/ post.year = NullInt

\* Mutant: the conflict branch rewrites the whole row (INSERT OR REPLACE).
InsertOrReplace(rows, post, t) ==
    {r \in rows : r.tweet_id # post.tweet_id}
        \cup { [ id |-> NextId(rows),
                 ambassador |-> post.ambassador, tweet_url |-> post.tweet_url,
                 tweet_id |-> post.tweet_id,
                 impressions |-> post.impressions, likes |-> post.likes,
                 retweets |-> post.retweets, replies |-> post.replies,
                 date_posted |-> post.date_posted,
                 submitted_date |-> post.submitted_date,
                 month |-> post.month, year |-> post.year,
                 last_updated |-> t ] }

\* Mutant: the conflict branch also takes the ambassador of the new post.
InsertOrUpdateOwner(rows, post, t) ==
    IF \E r \in rows : r.tweet_id = post.tweet_id
    THEN { IF r.tweet_id = post.tweet_id
           THEN [r EXCEPT !.ambassador = post.ambassador,
                          !.impressions = post.impressions,
                          !.likes = post.likes,
                          !.retweets = post.retweets,
                          !.replies = post.replies,
                          !.last_updated = t]
           ELSE r : r \in rows }
    ELSE InsertOrReplace(rows, post, t)

\* INSERT INTO x_posts ... ON CONFLICT(tweet_id) DO UPDATE SET the four counts
\* and last_updated; t is CURRENT_TIMESTAMP.
InsertOrUpdate(rows, post, t) ==
    IF \E r \in rows : r.tweet_id = post.tweet_id
    THEN { IF r.tweet_id = post.tweet_id
           THEN [r EXCEPT !.impressions = post.impressions,
                          !.likes = post.likes,
                          !.retweets = post.retweets,
                          !.replies = post.replies,
                          !.last_updated = t]
           ELSE r : r \in rows }
    ELSE rows \cup { [ id |-> NextId(rows),
                       ambassador |-> post.ambassador,
                       tweet_url |-> post.tweet_url,
                       tweet_id |-> post.tweet_id,
                       impressions |-> post.impressions, likes |-> post.likes,
                       retweets |-> post.retweets, replies |-> post.replies,
                       date_posted |-> post.date_posted,
                       submitted_date |-> post.submitted_date,
                       month |-> post.month, year |-> post.year,
                       last_updated |-> t ] }

\* The for loop of upsert_x_posts inside one connection: the statements run in
\* list order on the connection's uncommitted rows; the first statement that
\* raises ends the loop.  dbError = k > 0 makes the k-th execute raise for a
\* reason outside the data (sqlite3.OperationalError).
RECURSIVE ExecuteFrom(_, _, _, _, _)
ExecuteFrom(rows, batch, i, t, dbError) ==
    IF i > Len(batch) THEN [rows |-> rows, raised |-> FALSE, count |-> Len(batch)]
    ELSE IF dbError = i \/ ViolatesNotNull(batch[i])
         THEN [rows |-> rows, raised |-> TRUE, count |-> i - 1]
         ELSE ExecuteFrom(InsertOrUpdate(rows, batch[i], t), batch, i + 1, t, dbError)

\* Mutant: the except branch commits what the loop had applied.
TransactionNoRollback(rows, batch, t, dbError) ==
    LET done == ExecuteFrom(rows, batch, 1, t, dbError)
    IN  [rows |-> done.rows,
         raised |-> done.raised \/ dbError = Len(batch) + 1]

\* with self._lock: the loop, then conn.commit(); on any exception
\* conn.rollback() and re-raise.  dbError = Len(batch) + 1 makes the commit
\* raise.  The result is the committed table and whether the call raised.
Transaction(rows, batch, t, dbError) ==
    LET done == ExecuteFrom(rows, batch, 1, t, dbError)
    IN  IF done.raised \/ dbError = Len(batch) + 1
        THEN [rows |-> rows, raised |-> TRUE]
        ELSE [rows |-> done.rows, raised |-> FALSE]

\* DatabaseService.upsert_x_posts(batch)
upsert_x_posts(batch, dbError) ==
    LET tx == Transaction(x_posts, batch, now, dbError)
    IN  /\ x_posts' = tx.rows
        /\ last' = [op |-> "upsert_x_posts", posts |-> batch,
                    raised |-> tx.raised,
                    result |-> IF tx.raised THEN NullInt ELSE Len(batch)]
        /\ UNCHANGED <<now, schedVars, cacheVars>>

\* Mutant: the UPDATE has no WHERE clause.
SetAmbassadorOfAll(rows, tweet_id, ambassador, t) ==
    { [r EXCEPT !.ambassador = ambassador, !.last_updated = t] : r \in rows }

\* The UPDATE of update_x_post_ambassador on a table.
SetAmbassador(rows, tweet_id, ambassador, t) ==
    { IF r.tweet_id = tweet_id
      THEN [r EXCEPT !.ambassador = ambassador, !.last_updated = t]
      ELSE r : r \in rows }

\* DatabaseService.update_x_post_ambassador(tweet_id, ambassador): one UPDATE
\* and a commit; False when no row matched.  dbError makes the statement raise:
\* the except branch rolls back and returns False.
update_x_post_ambassador(tweet_id, ambassador, dbError) ==
    LET hit == {r \in x_posts : r.tweet_id = tweet_id}
        updated == ~dbError /\ hit # {}
    IN  /\ x_posts' = IF dbError THEN x_posts
                      ELSE SetAmbassador(x_posts, tweet_id, ambassador, now)
        /\ last' = [op |-> "update_x_post_ambassador", tweet_id |-> tweet_id,
                    ambassador |-> ambassador, raised |-> FALSE,
                    result |-> updated]
        /\ UNCHANGED <<now, schedVars, cacheVars>>

-----------------------------------------------------------------------------
(* Claims about the store *)

Counts(r) == <<r.impressions, r.likes, r.retweets, r.replies>>
Identity(r) == <<r.ambassador, r.tweet_url, r.tweet_id, r.month, r.year>>

\* The last post of a batch that names tweet id t.
LastPostFor(batch, t) ==
    batch[CHOOSE i \in DOMAIN batch :
            /\ batch[i].tweet_id = t
            /\ \A j \in DOMAIN batch : batch[j].tweet_id = t => j <= i]

\* C1: after any step the table holds at most one row per tweet_id, and an
\* upsert that returns normally leaves, for every tweet_id of its batch that
\* was stored before, one row with the counts of the batch's last post for
\* that id and the ambassador, url, tweet_id, month and year it had before.
C1_IdempotentUpsert ==
    [][ /\ \A t \in TweetIds : Cardinality({r \in x_posts' : r.tweet_id = t}) <= 1
        /\ (last'.op = "upsert_x_posts" /\ ~last'.raised) =>
              \A old \in x_posts :
                (\E i \in DOMAIN last'.posts : last'.posts[i].tweet_id = old.tweet_id) =>
                  \E new \in x_posts' :
                     /\ new.tweet_id = old.tweet_id
                     /\ Identity(new) = Identity(old)
                     /\ Counts(new) = Counts(LastPostFor(last'.posts, old.tweet_id))
      ]_vars

\* A second upsert of tweet 1 with other counts and another owner, url and
\* period has returned: the row carries the new counts and the old identity.
C1_Witness ==
    /\ last.op = "upsert_x_posts" /\ ~last.raised
    /\ \E r \in x_posts : \E i \in DOMAIN last.posts :
          /\ last.posts[i].tweet_id = r.tweet_id
          /\ Counts(last.posts[i]) = Counts(r)
          /\ last.posts[i].ambassador # r.ambassador
          /\ last.posts[i].tweet_url # r.tweet_url
          /\ last.posts[i].month # r.month

\* C9: an upsert_x_posts call that raises leaves the table as it was; a batch
\* with a record that cannot be applied raises; a call that returns normally
\* has a row for every record of the batch, with that record's id and the
\* counts of the batch's last post for that id.
C9_BatchAtomic ==
    [][ last'.op = "upsert_x_posts" =>
          /\ last'.raised => x_posts' = x_posts
          /\ (\E i \in DOMAIN last'.posts : ViolatesNotNull(last'.posts[i]))
                => last'.raised
          /\ ~last'.raised =>
                \A i \in DOMAIN last'.posts :
                  \E r \in x_posts' :
                     /\ r.tweet_id = last'.posts[i].tweet_id
                     /\ Counts(r) = Counts(LastPostFor(last'.posts, r.tweet_id))
      ]_vars

\* A two-record batch whose first record is valid and new and whose second
\* record cannot be applied has raised: nothing of the first record is stored.
C9_Witness ==
    /\ last.op = "upsert_x_posts" /\ last.raised
    /\ Len(last.posts) = 2
    /\ ~ViolatesNotNull(last.posts[1])
    /\ ViolatesNotNull(last.posts[2])
    /\ \A r \in x_posts : r.tweet_id # last.posts[1].tweet_id

-----------------------------------------------------------------------------
(* Blocking detector and backoff policy (x_scraper_scheduler.py:74-127) *)

Max(a, b) == IF a >= b THEN a ELSE b
Min(a, b) == IF a <= b THEN a ELSE b

\* timedelta(minutes=30), in seconds
NoSuccessWindow == 1800
\* the failure count of "Method 2" of _is_blocked
SlowBlockFailures == 3

\* Mutant: the failure threshold is exclusive.
IsBlockedAbove(cf, maxf, lst, t) ==
    IF cf > maxf THEN TRUE
    ELSE IF cf >= SlowBlockFailures /\ (t - lst) > NoSuccessWindow THEN TRUE
    ELSE FALSE

\* Mutant: the 30-minute test is not strict.
IsBlockedAtWindow(cf, maxf, lst, t) ==
    IF cf >= maxf THEN TRUE
    ELSE IF cf >= SlowBlockFailures /\ (t - lst) >= NoSuccessWindow THEN TRUE
    ELSE FALSE

\* XScraperScheduler._is_blocked: cf, maxf, lst are consecutive_failures,
\* max_consecutive_failures and last_success_time, t is datetime.now().
IsBlocked(cf, maxf, lst, t) ==
    IF cf >= maxf THEN TRUE
    ELSE IF cf >= SlowBlockFailures /\ (t - lst) > NoSuccessWindow THEN TRUE
    ELSE FALSE

\* Mutant: the cap at blocking_max_wait_hours is left out.
CalculateWaitTimeUncapped(cf, base, maxh) ==
    (base * (2 ^ (cf \div 5))) * 60

\* XScraperScheduler._calculate_wait_time, in seconds.
CalculateWaitTime(cf, base, maxh) ==
    LET exponent == cf \div 5
        wait_minutes == base * (2 ^ exponent)
        max_wait_minutes == maxh * 60
    IN  Min(wait_minutes, max_wait_minutes) * 60

\* _is_blocked() called on the scheduler as it stands
CallIsBlocked ==
    /\ verdict' = IF IsBlocked(consecutive_failures, max_consecutive_failures,
                               last_success_time, now)
                  THEN "True" ELSE "False"
    /\ UNCHANGED <<x_posts, last, now, cfgVars, concVars, botVars, procVars, secondVars, events,
                   detectorVars, counterVars, sessionVars, loopVars, histVars,
                   wait_seconds, cacheVars>>

\* _calculate_wait_time() called on the scheduler as it stands
CallCalculateWaitTime ==
    /\ wait_seconds' = CalculateWaitTime(consecutive_failures,
                                         blocking_base_wait_minutes,
                                         blocking_max_wait_hours)
    /\ UNCHANGED <<x_posts, last, now, cfgVars, concVars, botVars, procVars, secondVars, events,
                   detectorVars, counterVars, sessionVars, loopVars, histVars,
                   verdict, cacheVars>>

-----------------------------------------------------------------------------
(* The data service behind the scheduler.  XScraperScheduler.__init__ binds  *)
(* self.sheets_service to a SheetsService and calls                         *)
(* get_current_month_x_posts and update_x_post_metrics on it               *)
(* (x_scraper_scheduler.py:178, 224).  sheets_service.py defines neither:   *)
(* the lookup raises AttributeError.  The only methods of those names are   *)
(* AmbassadorService's (ambassador_service.py:79-162), which the bot's      *)
(* scrape task calls (discord_bot.py:244, 266).  The variable               *)
(* sheets_service holds the class of the bound object: "SheetsService" as   *)
(* constructed, or "AmbassadorService", the binding under which the two     *)
(* calls resolve and the loop behind them runs.                             *)

DataServices == {"SheetsService", "AmbassadorService"}

\* hasattr(service, name) for the two methods the scheduler calls
HasMethod(service, name) ==
    /\ name \in {"get_current_month_x_posts", "update_x_post_metrics"}
    /\ service = "AmbassadorService"

\* datetime.now().strftime('%b') and .year: the model's clock starts in
\* November 2026 and the month turns at MonthEnd.
MonthName(t) == IF t < MonthEnd THEN "Nov" ELSE "Dec"
YearOf(t) == 2026

\* re.search(r'/status/(\d+)', tweet_url) on the URLs of the model
StatusIdOf(url) ==
    CASE url \in {"https://x.com/alice/status/1", "https://twitter.com/bob/status/1"} -> "1"
      [] url \in {"https://x.com/alice/status/2", "https://x.com/bob/status/2"} -> "2"
      [] url = "https://x.com/alice/status/3" -> "3"
      [] url = "https://x.com/alice/status/4" -> "4"
      [] url = "https://x.com/alice/status/5" -> "5"
      [] url = "https://x.com/alice/status/6" -> "6"
      [] url = "https://x.com/alice/status/7" -> "7"
      [] OTHER -> NULL

\* Config.get_ambassador_by_x_handle on the handles of the model
AmbassadorByXHandle(handle) ==
    CASE handle = "bob_x" -> "bob"
      [] handle = "alice_x" -> "alice"
      [] OTHER -> NULL

\* SELECT * FROM x_posts [WHERE month = ? AND year = ?] ORDER BY date_posted
\* DESC, as a sequence; rows with equal date_posted come in rowid order.
RECURSIVE OrderByDatePostedDesc(_)
OrderByDatePostedDesc(rows) ==
    IF rows = {} THEN <<>>
    ELSE LET first == CHOOSE r \in rows :
                        \A q \in rows :
                           \/ q.date_posted < r.date_posted
                           \/ (q.date_posted = r.date_posted /\ q.id >= r.id)
         IN  <<first>> \o OrderByDatePostedDesc(rows \ {first})

\* DatabaseService.get_x_posts(month, year); "if month and year" is false for
\* None.
get_x_posts(rows, month, year) ==
    IF month # NULL /\ year # NullInt
    THEN OrderByDatePostedDesc({r \in rows : r.month = month /\ r.year = year})
    ELSE OrderByDatePostedDesc(rows)

\* AmbassadorService.get_current_month_x_posts: the work list; [] when the
\* query raises.
get_current_month_x_posts(rows, t, readError) ==
    IF readError THEN <<>>
    ELSE LET found == get_x_posts(rows, MonthName(t), YearOf(t))
         IN  [k \in 1..Len(found) |->
                [Tweet_URL |-> found[k].tweet_url,
                 Ambassador |-> found[k].ambassador,
                 tweet_id |-> found[k].tweet_id]]

\* AmbassadorService.update_x_post_metrics(tweet_url, metrics) at time t: the
\* table afterwards and the success flag.  The owner update and the upsert are
\* two store calls, each with its own commit; dbError is passed to the upsert.
update_x_post_metrics(rows, tweet_url, metrics, t, dbError) ==
    IF tweet_url = "" THEN [rows |-> rows, success |-> FALSE]
    ELSE IF StatusIdOf(tweet_url) = NULL THEN [rows |-> rows, success |-> FALSE]
    ELSE LET tweet_id == StatusIdOf(tweet_url)
             ambassador == AmbassadorByXHandle(metrics.author_handle)
             owned == IF metrics.author_handle # NULL /\ ambassador # NULL
                      THEN SetAmbassador(rows, tweet_id, ambassador, t)
                      ELSE rows
             post == MkPost("Unknown", tweet_url, tweet_id, metrics,
                            metrics.date_posted, t, MonthName(t), YearOf(t))
             tx == Transaction(owned, <<post>>, t, dbError)
         IN  [rows |-> tx.rows, success |-> ~tx.raised]

-----------------------------------------------------------------------------
(* XScraperScheduler (x_scraper_scheduler.py) *)

\* What XScraper.scrape_tweet_metrics can hand back: a metrics dictionary
\* (with or without a resolvable author handle), None with a message, or an
\* exception.
ExtractorOutcomes ==
    {"metrics", "metrics_with_handle", "blocking", "transient", "exception"}

ScrapedMetrics(ext) ==
    [impressions |-> 90, likes |-> 7, retweets |-> 2, replies |-> 1,
     date_posted |-> NullInt,
     author_handle |-> IF ext = "metrics_with_handle" THEN "alice_x" ELSE NULL]

\* The extractor's failure messages and _is_blocking_error on them: the first
\* contains the indicator 'timeout' (case-insensitively), the second none.
FailureMessage(ext) ==
    IF ext = "blocking" THEN "Timeout waiting for tweet to load"
    ELSE "Error scraping: no such element"
IsBlockingError(message) == message = "Timeout waiting for tweet to load"

\* time.sleep(self.scrape_delay_seconds * random.uniform(0.8, 1.2)): the two
\* ends of the range
DelayChoices == {(scrape_delay_seconds * 4) \div 5, (scrape_delay_seconds * 6) \div 5}

\* chunk_size of _wait_for_unblock
chunk_size == 60

\* Mutant: the wait clears the failure counter.
DecayToZero(n) == 0

\* Mutant: the wait takes 2 off the failure counter without the floor.
DecayUnfloored(n) == n - 2

\* max(0, self.consecutive_failures - 2) at the end of _wait_for_unblock
Decay(n) == Max(0, n - 2)

\* Mutant: only a failure whose message is of the blocking class is counted.
FailuresAfterBlockingOnly(cf, message) ==
    IF IsBlockingError(message) THEN cf + 1 ELSE cf

\* "self.consecutive_failures += 1" of the branch "Scraping failed": it comes
\* before _is_blocking_error(message) is asked, and both answers return.
FailuresAfter(cf, message) == cf + 1

\* Mutant: a failed store update is counted like a failed extraction.
FailuresAfterUpdateFailedCounted(cf) == cf + 1

\* The branch "Sheet update failed" of _scrape_single_tweet: it returns False
\* and does not touch consecutive_failures.
FailuresAfterUpdateFailed(cf) == cf

\* Mutant: an exception of the extractor is not caught.
ScrapeSingleTweetUncaught(post, ext, dbError) ==
    [ success |-> FALSE, raised |-> ext = "exception",
      kind |-> ext,
      consecutive_failures |-> consecutive_failures + 1,
      last_success_time |-> last_success_time,
      total_success |-> total_success,
      rows |-> x_posts ]

\* XScraperScheduler._scrape_single_tweet(post): what it returns and the
\* fields it leaves behind.  It never raises: every exception is caught.
ScrapeSingleTweet(post, ext, dbError) ==
    LET same == [ success |-> FALSE, raised |-> FALSE, kind |-> "missing_url",
                  consecutive_failures |-> consecutive_failures,
                  last_success_time |-> last_success_time,
                  total_success |-> total_success,
                  rows |-> x_posts ]
    IN  IF post.Tweet_URL = "" THEN same
        ELSE IF /\ ext \in {"metrics", "metrics_with_handle"}
                /\ ~HasMethod(sheets_service, "update_x_post_metrics")
        THEN [same EXCEPT !.kind = "exception",
                          !.consecutive_failures = consecutive_failures + 1]
        ELSE IF ext \in {"metrics", "metrics_with_handle"}
        THEN LET upd == update_x_post_metrics(x_posts, post.Tweet_URL,
                                              ScrapedMetrics(ext), now, dbError)
             IN  IF upd.success
                 THEN [same EXCEPT !.success = TRUE, !.kind = "success",
                                   !.consecutive_failures = 0,
                                   !.last_success_time = now,
                                   !.total_success = total_success + 1,
                                   !.rows = upd.rows]
                 ELSE [same EXCEPT !.kind = "store_failure", !.rows = upd.rows,
                                   !.consecutive_failures =
                                       FailuresAfterUpdateFailed(consecutive_failures)]
        ELSE IF ext = "exception"
        THEN [same EXCEPT !.kind = "exception",
                          !.consecutive_failures = consecutive_failures + 1]
        ELSE [same EXCEPT !.kind = IF IsBlockingError(FailureMessage(ext))
                                   THEN "blocking" ELSE "transient",
                          !.consecutive_failures =
                              FailuresAfter(consecutive_failures, FailureMessage(ext))]

\* Mutant: _init_scraper keeps the session it holds.
InitScraperKept(ok) ==
    /\ scraper' = IF ok /\ scraper = 0 THEN sessions + 1 ELSE scraper
    /\ sessions' = IF ok /\ scraper = 0 THEN sessions + 1 ELSE sessions
    /\ open_drivers' = IF ok /\ scraper = 0 THEN open_drivers \cup {sessions + 1}
                        ELSE open_drivers

\* XScraperScheduler._init_scraper: quit the held session's driver (errors
\* swallowed), then construct an XScraper. XScraper._init_driver raises
\* either before webdriver.Chrome() has started a browser, or after it
\* (execute_cdp_cmd failed): it logs and re-raises without quitting that
\* browser, and self.scraper is not assigned.
InitScraper(ok) ==
    IF ok
    THEN /\ scraper' = sessions + 1
         /\ sessions' = sessions + 1
         /\ open_drivers' = (open_drivers \ {scraper}) \cup {sessions + 1}
    ELSE \E started \in BOOLEAN :
         /\ scraper' = scraper
         /\ sessions' = IF started THEN sessions + 1 ELSE sessions
         /\ open_drivers' = (open_drivers \ {scraper})
                               \cup (IF started THEN {sessions + 1} ELSE {})

\* "if self.scraper: self.scraper.close_driver()"
CloseScraper ==
    /\ open_drivers' = open_drivers \ {scraper}
    /\ UNCHANGED <<scraper, sessions>>

\* An entry of the history of the current item: what happened, and to which
\* session.
Event(e, s) == [e |-> e, s |-> s]

ZeroStats == [total |-> 0, success |-> 0, failed |-> 0, blocked |-> FALSE]

\* process_current_month_tweets up to the for loop: _init_scraper, the work
\* list (AttributeError when the data service has no such method), the
\* empty-list return, the counter reset.
BeginRun ==
    /\ pc = "idle"
    /\ runs < MaxRuns
    /\ runs' = runs + 1
    /\ trail' = <<>>
    /\ events' = <<>>
    /\ \E ok \in BOOLEAN : \E readError \in BOOLEAN :
         /\ InitScraper(ok)
         /\ IF ~ok
            THEN /\ pc' = "raised" /\ error' = "init_scraper"
                 /\ UNCHANGED <<posts, idx, stats, counterVars>>
            ELSE IF ~HasMethod(sheets_service, "get_current_month_x_posts")
            THEN /\ pc' = "raised" /\ error' = "AttributeError"
                 /\ UNCHANGED <<posts, idx, stats, counterVars>>
            ELSE LET found == get_current_month_x_posts(x_posts, now, readError)
                 IN  /\ posts' = found
                     /\ error' = "none"
                     /\ IF found = <<>>
                        THEN /\ stats' = ZeroStats
                             /\ pc' = "returned"
                             /\ UNCHANGED <<idx, counterVars>>
                        ELSE /\ total_processed' = 0
                             /\ total_success' = 0
                             /\ total_failed' = 0
                             /\ idx' = 1
                             /\ pc' = "check"
                             /\ UNCHANGED stats
    /\ UNCHANGED <<x_posts, last, now, cfgVars, concVars, botVars, procVars, secondVars,
                   detectorVars, chunks_left, outcome, streak, pureVars, cacheVars>>

\* The top of the loop body: "if self._is_blocked():" and, when blocked, the
\* start of _wait_for_unblock: chunks = int(wait_seconds / chunk_size).
CheckBlocked ==
    /\ pc = "check"
    /\ IF IsBlocked(consecutive_failures, max_consecutive_failures,
                    last_success_time, now)
       THEN /\ pc' = "wait"
            /\ chunks_left' =
                 CalculateWaitTime(consecutive_failures, blocking_base_wait_minutes,
                                   blocking_max_wait_hours) \div chunk_size
            /\ events' = <<Event("blocked", scraper)>>
       ELSE /\ pc' = "scrape"
            /\ events' = <<>>
            /\ UNCHANGED chunks_left
    /\ UNCHANGED <<x_posts, last, now, cfgVars, concVars, botVars, procVars, secondVars,
                   detectorVars, counterVars, sessionVars, posts, idx, stats,
                   histVars, pureVars, cacheVars>>

\* One iteration of the chunk loop: time.sleep(chunk_size).
WaitChunk ==
    /\ pc = "wait"
    /\ chunks_left > 0
    /\ now' = now + chunk_size
    /\ chunks_left' = chunks_left - 1
    /\ UNCHANGED <<x_posts, last, cfgVars, concVars, botVars, procVars, secondVars, events,
                   detectorVars, counterVars, sessionVars, pc, posts, idx, stats,
                   histVars, pureVars, cacheVars>>

\* The end of _wait_for_unblock: the failure counter is reduced.
WaitDone ==
    /\ pc = "wait"
    /\ chunks_left = 0
    /\ consecutive_failures' = Decay(consecutive_failures)
    /\ pc' = "reinit"
    /\ events' = Append(events, Event("waited", scraper))
    /\ UNCHANGED <<x_posts, last, now, cfgVars, concVars, botVars, procVars, secondVars,
                   last_success_time, counterVars, sessionVars, posts, idx,
                   chunks_left, stats, histVars, pureVars, cacheVars>>

\* "self._init_scraper()" after the wait.
Reinit ==
    /\ pc = "reinit"
    /\ \E ok \in BOOLEAN :
         /\ InitScraper(ok)
         /\ IF ok THEN pc' = "scrape" /\ error' = error
                  ELSE pc' = "raised" /\ error' = "init_scraper"
         /\ events' = events
                         \o (IF scraper \in open_drivers \ open_drivers'
                             THEN <<Event("closed", scraper)>> ELSE <<>>)
                         \o (IF scraper' \in open_drivers' \ open_drivers
                             THEN <<Event("opened", scraper')>> ELSE <<>>)
    /\ UNCHANGED <<x_posts, last, now, cfgVars, concVars, botVars, procVars, secondVars,
                   detectorVars, counterVars, posts, idx, chunks_left, stats,
                   trail, outcome, streak, runs, pureVars, cacheVars>>

\* Mutant: the delay is taken after the last item too.
AfterItemAlwaysDelay(i, n) == "delay"

\* "if i < len(posts):" after item i of n: the delay, or the end of the loop.
AfterItem(i, n) == IF i < n THEN "delay" ELSE "close"

\* Mutant: an item is counted as failed only when the failure counter moved.
FailedAfterCounted(failed, r) ==
    IF r.consecutive_failures > consecutive_failures THEN failed + 1 ELSE failed

\* "if not success: self.total_failed += 1" for the result r of
\* _scrape_single_tweet.
FailedAfter(failed, r) == IF r.success THEN failed ELSE failed + 1

\* _scrape_single_tweet(post) and the counting that follows it.
ScrapeItem ==
    /\ pc = "scrape"
    /\ \E ext \in ExtractorOutcomes : \E dbError \in 0..2 :
         /\ (ext \notin {"metrics", "metrics_with_handle"} => dbError = 0)
         /\ LET r == ScrapeSingleTweet(posts[idx], ext, dbError)
            IN  /\ consecutive_failures' = r.consecutive_failures
                /\ last_success_time' = r.last_success_time
                /\ total_success' = r.total_success
                /\ x_posts' = r.rows
                /\ outcome' = r.kind
                /\ streak' = CASE r.kind = "success" -> 0
                               [] r.kind = "blocking" ->
                                    IF streak = NullInt THEN NullInt ELSE streak + 1
                               [] r.kind \in {"transient", "exception"} -> NullInt
                               [] OTHER -> streak
                /\ IF r.raised
                   THEN /\ pc' = "raised" /\ error' = "scrape_single_tweet"
                        /\ UNCHANGED <<total_processed, total_failed>>
                   ELSE /\ total_processed' = total_processed + 1
                        /\ total_failed' = FailedAfter(total_failed, r)
                        /\ pc' = AfterItem(idx, Len(posts))
                        /\ error' = error
    /\ trail' = Append(trail, posts[idx].tweet_id)
    /\ events' = IF posts[idx].Tweet_URL = "" THEN events
                  ELSE Append(events, Event("extract", scraper))
    /\ UNCHANGED <<last, now, cfgVars, concVars, botVars, procVars, secondVars, sessionVars, posts,
                   idx, chunks_left, stats, runs, pureVars, cacheVars>>

\* Mutant: an item that was not scraped successfully is taken again.
NextItemRetry(i, kind) == IF kind = "success" THEN i + 1 ELSE i

\* "for i, post in enumerate(posts, 1):" the loop moves to the next item
\* whatever became of item i.
NextItem(i, kind) == i + 1

\* "if i < len(posts): time.sleep(delay)" and the step to the next item.
Delay ==
    /\ pc = "delay"
    /\ \E d \in DelayChoices : now' = now + d
    /\ idx' = NextItem(idx, outcome)
    /\ pc' = "check"
    /\ outcome' = "none"
    /\ events' = <<>>
    /\ UNCHANGED <<x_posts, last, cfgVars, concVars, botVars, procVars, secondVars, detectorVars,
                   counterVars, sessionVars, posts, chunks_left, stats, trail,
                   streak, error, runs, pureVars, cacheVars>>

\* After the loop: close the scraper and return the statistics.
FinishRun ==
    /\ pc = "close"
    /\ CloseScraper
    /\ stats' = [total |-> total_processed, success |-> total_success,
                 failed |-> total_failed,
                 blocked |-> IsBlocked(consecutive_failures,
                                       max_consecutive_failures,
                                       last_success_time, now)]
    /\ pc' = "returned"
    /\ outcome' = "none"
    /\ events' = <<>>
    /\ UNCHANGED <<x_posts, last, now, cfgVars, concVars, botVars, procVars, secondVars,
                   detectorVars, counterVars, posts, idx, chunks_left, trail,
                   streak, error, runs, pureVars, cacheVars>>

\* Mutant: the interval is extended when failed >= success.
IntervalSecondsOnTie(s) ==
    IF s.failed >= s.success
    THEN (schedule_interval_minutes * 3 * 60) \div 2
    ELSE schedule_interval_minutes * 60

\* "interval * 60" of run_continuous for the statistics s of the run that
\* returned: the configured interval, times 1.5 when failed > success.
IntervalSeconds(s) ==
    IF s.failed > s.success
    THEN (schedule_interval_minutes * 3 * 60) \div 2
    ELSE schedule_interval_minutes * 60

\* run_continuous after a run that returned: the sleep until the next run
\* (1.5 times the interval when failed > success), then the finally clause.
SleepUntilNextRun ==
    /\ mode = "continuous"
    /\ pc = "returned"
    /\ now' = now + IntervalSeconds(stats)
    /\ CloseScraper
    /\ pc' = "idle"
    /\ UNCHANGED <<x_posts, last, cfgVars, concVars, botVars, procVars, secondVars, events,
                   detectorVars, counterVars, posts, idx, chunks_left, stats,
                   histVars, pureVars, cacheVars>>

\* run_continuous after a run that raised: "except Exception", the 5-minute
\* sleep, then the finally clause.
SleepAfterError ==
    /\ mode = "continuous"
    /\ pc = "raised"
    /\ now' = now + RetrySleepSeconds
    /\ CloseScraper
    /\ pc' = "idle"
    /\ UNCHANGED <<x_posts, last, cfgVars, concVars, botVars, procVars, secondVars, events,
                   detectorVars, counterVars, posts, idx, chunks_left, stats,
                   histVars, pureVars, cacheVars>>

\* A second call of process_current_month_tweets on the same scheduler while
\* a run is active (a manual trigger from another thread).  The method has no
\* guard: the call executes the same code on the same fields.  Its entry:
\* _init_scraper, the work list, the empty-list return, the counter reset.
SecondBeginRun ==
    /\ pc \in {"check", "wait", "reinit", "scrape", "delay", "close"}
    /\ pc2 = "idle"
    /\ \E ok \in BOOLEAN : \E readError \in BOOLEAN :
         /\ InitScraper(ok)
         /\ IF ~ok \/ ~HasMethod(sheets_service, "get_current_month_x_posts")
            THEN /\ pc2' = "raised"
                 /\ UNCHANGED <<posts2, idx2, counterVars>>
            ELSE LET found == get_current_month_x_posts(x_posts, now, readError)
                 IN  /\ posts2' = found
                     /\ IF found = <<>>
                        THEN /\ pc2' = "returned"
                             /\ UNCHANGED <<idx2, counterVars>>
                        ELSE /\ total_processed' = 0
                             /\ total_success' = 0
                             /\ total_failed' = 0
                             /\ idx2' = 1
                             /\ pc2' = "check"
    /\ UNCHANGED <<x_posts, last, now, cfgVars, concVars, botVars, procVars, events, detectorVars,
                   loopVars, histVars, pureVars, cacheVars>>

\* The top of the loop body of the second call: the detector and, when it
\* says blocked, _wait_for_unblock to its end and _init_scraper.
SecondCheckBlocked ==
    /\ pc2 = "check"
    /\ IF IsBlocked(consecutive_failures, max_consecutive_failures,
                    last_success_time, now)
       THEN /\ now' = now + chunk_size *
                        (CalculateWaitTime(consecutive_failures,
                                           blocking_base_wait_minutes,
                                           blocking_max_wait_hours) \div chunk_size)
            /\ consecutive_failures' = Decay(consecutive_failures)
            /\ \E ok \in BOOLEAN :
                 /\ InitScraper(ok)
                 /\ pc2' = IF ok THEN "scrape" ELSE "raised"
       ELSE /\ pc2' = "scrape"
            /\ UNCHANGED <<now, consecutive_failures, sessionVars>>
    /\ UNCHANGED <<x_posts, last, cfgVars, concVars, botVars, procVars, events, last_success_time,
                   counterVars, loopVars, histVars, pureVars, posts2, idx2,
                   cacheVars>>

\* The rest of the loop body of the second call: _scrape_single_tweet, the
\* counting, the delay before the next item.
SecondScrapeItem ==
    /\ pc2 = "scrape"
    /\ \E ext \in ExtractorOutcomes : \E dbError \in 0..2 : \E d \in DelayChoices :
         /\ (ext \notin {"metrics", "metrics_with_handle"} => dbError = 0)
         /\ LET r == ScrapeSingleTweet(posts2[idx2], ext, dbError)
            IN  /\ consecutive_failures' = r.consecutive_failures
                /\ last_success_time' = r.last_success_time
                /\ total_success' = r.total_success
                /\ x_posts' = r.rows
                /\ total_processed' = total_processed + 1
                /\ total_failed' = IF r.success THEN total_failed
                                   ELSE total_failed + 1
         /\ IF idx2 < Len(posts2)
            THEN /\ now' = now + d
                 /\ idx2' = idx2 + 1
                 /\ pc2' = "check"
            ELSE /\ d = (scrape_delay_seconds * 4) \div 5
                 /\ pc2' = "close"
                 /\ UNCHANGED <<now, idx2>>
    /\ UNCHANGED <<last, cfgVars, concVars, botVars, procVars, events, sessionVars, loopVars,
                   histVars, pureVars, posts2, cacheVars>>

\* After the loop of the second call: close the scraper and return.
SecondFinishRun ==
    /\ pc2 = "close"
    /\ CloseScraper
    /\ pc2' = "returned"
    /\ UNCHANGED <<x_posts, last, now, cfgVars, concVars, botVars, procVars, events, detectorVars,
                   counterVars, loopVars, histVars, pureVars, posts2, idx2,
                   cacheVars>>

\* Where a KeyboardInterrupt can land while run_continuous is at pc, by what
\* becomes of it.  "propagates": it reaches "except KeyboardInterrupt: break"
\* (or, from the sleep of the "except Exception" handler, leaves
\* run_continuous), the finally clause closing the scraper on the way.
\* "swallowed": it lands inside a bare "except:", which catches it: around
\* close_driver in _init_scraper (x_scraper_scheduler.py:63-66) and in the
\* finally clause (340-343), and in XScraper._extract_impressions
\* (x_scraper.py:342).  "constructing": it lands in XScraper._init_driver
\* after webdriver.Chrome() has started the browser; the XScraper is never
\* bound to self.scraper.
InterruptPoints(at) ==
    CASE at \in {"check", "wait", "delay", "close"} -> {"propagates"}
      [] at = "scrape" -> {"propagates", "swallowed"}
      [] at = "reinit" -> {"propagates", "swallowed", "constructing"}
      [] at = "idle" -> {"propagates", "constructing"}
                          \cup (IF scraper # 0 THEN {"swallowed"} ELSE {})
      [] at \in {"returned", "raised"} ->
            {"propagates"} \cup (IF scraper # 0 THEN {"swallowed"} ELSE {})
      [] OTHER -> {}

\* An external stop signal (SIGINT, raised as KeyboardInterrupt in the main
\* thread) while run_continuous is running.
Interrupt ==
    /\ mode = "continuous"
    /\ stop = "none"
    /\ stop' = "sent"
    /\ \E point \in InterruptPoints(pc) :
         CASE point = "propagates" ->
                /\ CloseScraper
                /\ pc' = "stopped"
           [] point = "swallowed" ->
                UNCHANGED <<sessionVars, pc>>
           [] point = "constructing" ->
                /\ sessions' = sessions + 1
                /\ open_drivers' = (open_drivers \ {scraper}) \cup {sessions + 1}
                /\ scraper' = scraper
                /\ pc' = "stopped"
    /\ UNCHANGED <<x_posts, last, now, cfgVars, concVars, botVars, mode, exit_status, secondVars,
                   events, detectorVars, counterVars, posts, idx, chunks_left,
                   stats, histVars, pureVars, cacheVars>>

\* The mode argument of main().
Modes == {"once", "continuous"}

\* Mutant: run_once lets the exception of a run that raised reach main().
ExitStatusUncaught(raised) == IF raised THEN 1 ELSE 0

\* The exit status after run_once: it catches every Exception of the run and
\* logs it, main() returns, and the interpreter exits with 0.
ExitStatus(raised) == 0

\* main() up to the call of run_once / run_continuous: XScraperScheduler(),
\* whose SheetsService() opens the database.  An exception here is not
\* caught: the interpreter prints it and exits with 1.
Main ==
    /\ pc = "main"
    /\ \E ok \in BOOLEAN :
         IF ok THEN /\ pc' = "idle"
                    /\ UNCHANGED <<exit_status, error>>
               ELSE /\ pc' = "exited"
                    /\ exit_status' = 1
                    /\ error' = "setup"
    /\ UNCHANGED <<x_posts, last, now, cfgVars, concVars, botVars, mode, stop, secondVars, events,
                   detectorVars, counterVars, sessionVars, posts, idx,
                   chunks_left, stats, trail, outcome, streak, runs, pureVars,
                   cacheVars>>

\* run_once after process_current_month_tweets returned or raised: the
\* except clause, the finally clause, and the exit of the process.
RunOnceExit ==
    /\ mode = "once"
    /\ pc \in {"returned", "raised"}
    /\ CloseScraper
    /\ exit_status' = ExitStatus(pc = "raised")
    /\ pc' = "exited"
    /\ UNCHANGED <<x_posts, last, now, cfgVars, concVars, botVars, mode, stop, secondVars, events,
                   detectorVars, counterVars, posts, idx, chunks_left, stats,
                   histVars, pureVars, cacheVars>>

-----------------------------------------------------------------------------
(* LocalDataService (local_data_service.py): the TTL cache and the X        *)
(* leaderboard built through it.                                            *)

\* the (year, month) arguments get_x_leaderboard is called with: all time,
\* and the month the model's clock starts in
LeaderboardArgs == { <<NullInt, NullInt>>, <<2026, 11>> }

\* f"x_leaderboard_{year}_{month}"
CacheKey(year, month) ==
    IF year = NullInt /\ month = NullInt THEN "x_leaderboard_None_None"
    ELSE "x_leaderboard_2026_11"

CacheKeys == { CacheKey(a[1], a[2]) : a \in LeaderboardArgs }

\* a key that is not in self._cache
NoEntry == [timestamp |-> NullInt]

EmptyCache == [k \in CacheKeys |-> NoEntry]

\* datetime.fromisoformat(date_posted).date().month
MonthNumber(t) == IF t < MonthEnd THEN 11 ELSE 12

\* datetime(year, month, 1).strftime('%b')
MonthAbbr(month) == IF month = 11 THEN "Nov" ELSE "Dec"

\* _should_exclude_month: the key "YYYY-MM" is looked up in
\* config.excluded_months, a list of tuples, which holds no string.
ShouldExcludeMonth(year, month) == FALSE

\* Mutant: an entry is served while its age is at most the TTL.
FreshAtTtl(timestamp, t) == (t - timestamp) <= cache_ttl

\* "(datetime.now().timestamp() - timestamp) < self._cache_ttl"
Fresh(timestamp, t) == (t - timestamp) < cache_ttl

\* Mutant: an expired entry is reported absent and left in the cache.
GetCacheKeepExpired(c, key, t) ==
    IF c[key] # NoEntry /\ Fresh(c[key].timestamp, t)
    THEN [hit |-> TRUE, entry |-> c[key], cache |-> c]
    ELSE [hit |-> FALSE, entry |-> NoEntry, cache |-> c]

\* LocalDataService._get_cache(key) at time t, under the lock: the value
\* returned (hit) and the cache afterwards; an expired entry is deleted.
GetCache(c, key, t) ==
    IF c[key] # NoEntry
    THEN IF Fresh(c[key].timestamp, t)
         THEN [hit |-> TRUE, entry |-> c[key], cache |-> c]
         ELSE [hit |-> FALSE, entry |-> NoEntry,
               cache |-> [c EXCEPT ![key] = NoEntry]]
    ELSE [hit |-> FALSE, entry |-> NoEntry, cache |-> c]

\* LocalDataService._set_cache(key, value) at time t, under the lock.  The
\* entry also records, for the properties, the store version the value was
\* computed from and the last completed write when it was set.
SetCache(c, key, value, t, read_version, completed) ==
    [c EXCEPT ![key] = [value |-> value, timestamp |-> t,
                        read_version |-> read_version,
                        set_after |-> completed]]

\* The filter loop of get_x_leaderboard: posts without date_posted are
\* skipped, and with a year and month, posts of another month.
FilteredPosts(found, year, month) ==
    SelectSeq(found, LAMBDA post :
        /\ post.date_posted # NullInt
        /\ ~ShouldExcludeMonth(YearOf(post.date_posted), MonthNumber(post.date_posted))
        /\ (year # NullInt /\ month # NullInt) =>
              /\ YearOf(post.date_posted) = year
              /\ MonthNumber(post.date_posted) = month)

\* The aggregation loop: one record per ambassador, in order of first
\* appearance.
RECURSIVE AggregateFrom(_, _)
AggregateFrom(found, ambassador_stats) ==
    IF found = <<>> THEN ambassador_stats
    ELSE LET post == Head(found)
             seen == \E i \in DOMAIN ambassador_stats : ambassador_stats[i].name = post.ambassador
             base == IF seen THEN ambassador_stats
                     ELSE Append(ambassador_stats, [name |-> post.ambassador, tweets |-> 0,
                                         total_impressions |-> 0, total_likes |-> 0,
                                         total_replies |-> 0, total_retweets |-> 0])
             next == [i \in DOMAIN base |->
                        IF base[i].name = post.ambassador
                        THEN [base[i] EXCEPT
                                !.tweets = @ + 1,
                                !.total_impressions = @ + post.impressions,
                                !.total_likes = @ + post.likes,
                                !.total_replies = @ + post.replies,
                                !.total_retweets = @ + post.retweets]
                        ELSE base[i]]
         IN  AggregateFrom(Tail(found), next)

\* sorted(..., key=total_impressions, reverse=True): stable
RECURSIVE SortedByImpressions(_)
SortedByImpressions(ambassador_stats) ==
    IF ambassador_stats = <<>> THEN <<>>
    ELSE LET top == CHOOSE i \in DOMAIN ambassador_stats :
                      /\ \A j \in DOMAIN ambassador_stats :
                            ambassador_stats[j].total_impressions <= ambassador_stats[i].total_impressions
                      /\ \A j \in 1..(i - 1) :
                            ambassador_stats[j].total_impressions < ambassador_stats[i].total_impressions
         IN  <<ambassador_stats[top]>> \o
             SortedByImpressions([j \in 1..(Len(ambassador_stats) - 1) |->
                                    IF j < top THEN ambassador_stats[j] ELSE ambassador_stats[j + 1]])

RECURSIVE SumImpressions(_)
SumImpressions(found) ==
    IF found = <<>> THEN 0
    ELSE Head(found).impressions + SumImpressions(Tail(found))

\* The result get_x_leaderboard computes from the table.
XLeaderboard(rows, year, month) ==
    LET found == IF year # NullInt /\ month # NullInt
                 THEN get_x_posts(rows, MonthAbbr(month), year)
                 ELSE get_x_posts(rows, NULL, NullInt)
        kept == FilteredPosts(found, year, month)
    IN  [leaderboard |-> SortedByImpressions(AggregateFrom(kept, <<>>)),
         total_impressions_all |-> SumImpressions(kept)]

\* LocalDataService.__init__: an empty cache; nobody inside a method.
CacheConstructed ==
    /\ cache = EmptyCache
    /\ reader = [pc |-> "idle"]
    /\ writer = [pc |-> "idle"]
    /\ got = [key |-> NULL]
    /\ versions = [store |-> 0, completed |-> 0]
    /\ ticks = 0

\* get_x_leaderboard(year, month) up to the cache check: _get_cache returns
\* the cached result, which is returned, or None.
GetXLeaderboard(year, month) ==
    /\ reader.pc = "idle"
    /\ LET key == CacheKey(year, month)
           r == GetCache(cache, key, now)
       IN  /\ cache' = r.cache
           /\ got' = [key |-> key, found |-> cache[key] # NoEntry,
                      age |-> IF cache[key] # NoEntry
                              THEN now - cache[key].timestamp ELSE NullInt,
                      hit |-> r.hit,
                      returned_stored |-> r.hit => r.entry = cache[key],
                      read_version |-> IF r.hit THEN r.entry.read_version
                                       ELSE NullInt,
                      set_after |-> IF r.hit THEN r.entry.set_after
                                    ELSE NullInt,
                      completed |-> versions.completed]
           /\ reader' = IF r.hit THEN reader
                        ELSE [pc |-> "miss", year |-> year, month |-> month]
    /\ UNCHANGED <<x_posts, last, now, schedVars, writer, versions, ticks>>

\* get_x_leaderboard after a miss: the query and the aggregation.
ComputeXLeaderboard ==
    /\ reader.pc = "miss"
    /\ reader' = [pc |-> "computed", year |-> reader.year, month |-> reader.month,
                  result |-> XLeaderboard(x_posts, reader.year, reader.month),
                  read_version |-> versions.store]
    /\ got' = [key |-> NULL]
    /\ UNCHANGED <<x_posts, last, now, schedVars, cache, writer, versions, ticks>>

\* get_x_leaderboard: "self._set_cache(cache_key, result)" and the return.
CacheXLeaderboard ==
    /\ reader.pc = "computed"
    /\ cache' = SetCache(cache, CacheKey(reader.year, reader.month),
                         reader.result, now, reader.read_version,
                         versions.completed)
    /\ reader' = [pc |-> "idle"]
    /\ got' = [key |-> NULL]
    /\ UNCHANGED <<x_posts, last, now, schedVars, writer, versions, ticks>>

\* add_content(ambassador, content_url) for an X URL, up to the upsert; when
\* the upsert raises, the except branch returns without clearing the cache.
AddContentUpsert(ambassador, content_url, dbError) ==
    /\ writer.pc = "idle"
    /\ versions.store < MaxWrites
    /\ StatusIdOf(content_url) # NULL
    /\ LET post == MkPost(ambassador, content_url, StatusIdOf(content_url),
                          ZeroMetrics, now, now, MonthName(now), YearOf(now))
           tx == Transaction(x_posts, <<post>>, now, dbError)
       IN  /\ x_posts' = tx.rows
           /\ IF tx.raised
              THEN UNCHANGED <<writer, versions>>
              ELSE /\ versions' = [versions EXCEPT !.store = @ + 1]
                   /\ writer' = [pc |-> "upserted", version |-> versions.store + 1]
    /\ got' = [key |-> NULL]
    /\ UNCHANGED <<last, now, schedVars, cache, reader, ticks>>

\* add_content: "self.clear_cache()" and the return.
AddContentClear ==
    /\ writer.pc = "upserted"
    /\ cache' = EmptyCache
    /\ versions' = [versions EXCEPT !.completed = Max(@, writer.version)]
    /\ writer' = [pc |-> "idle"]
    /\ got' = [key |-> NULL]
    /\ UNCHANGED <<x_posts, last, now, schedVars, reader, ticks>>

\* AmbassadorService.update_x_post_metrics(tweet_url, metrics), as the scrape
\* task and the scheduler call it for a scraped tweet.  It does not touch the
\* cache of any LocalDataService.
UpdateXPostMetrics(tweet_url, ext, dbError) ==
    /\ versions.store < MaxWrites
    /\ LET upd == update_x_post_metrics(x_posts, tweet_url, ScrapedMetrics(ext),
                                        now, dbError)
       IN  /\ x_posts' = upd.rows
           /\ versions' = IF upd.success
                          THEN [store |-> versions.store + 1,
                                completed |-> versions.store + 1]
                          ELSE versions
    /\ got' = [key |-> NULL]
    /\ UNCHANGED <<last, now, schedVars, cache, reader, writer, ticks>>

\* LocalDataService.clear_cache(), as POST /api/clear-cache calls it.
ClearCache ==
    /\ cache' = EmptyCache
    /\ got' = [key |-> NULL]
    /\ UNCHANGED <<x_posts, last, now, schedVars, reader, writer, versions, ticks>>

\* The wall clock moves between two operations.
Tick(d) ==
    /\ ticks < MaxTicks
    /\ ticks' = ticks + 1
    /\ now' = now + d
    /\ got' = [key |-> NULL]
    /\ UNCHANGED <<x_posts, last, schedVars, cache, reader, writer, versions>>

-----------------------------------------------------------------------------
(* DatabaseService under concurrent callers (db_service.py)                 *)
(*                                                                          *)
(* Every entry point builds a DatabaseService of its own (app.py:39 and     *)
(* x_scraper_scheduler.py:42 through SheetsService, discord_bot.py:103,     *)
(* record_daily_snapshot.py:42), and every DatabaseService has a            *)
(* threading.Lock of its own (db_service.py:26); all of them open the same  *)
(* database file.  A call is modelled statement by statement on its own     *)
(* connection: the rows a connection has written are its own until          *)
(* conn.commit(), and SQLite lets one connection at a time write.           *)

\* the callers that write, and the DatabaseService objects they may hold
Writers == {1, 2}
DbInstances == {1, 2}

\* The batches the concurrent callers upsert: one that changes two rows, one
\* that changes one, and one whose second post has no month.
WriterBatches ==
    { <<MkPost("alice", "https://x.com/alice/status/1", "1", FullMetrics, 0, 0, "Nov", 2026),
        MkPost("alice", "https://x.com/alice/status/2", "2", FullMetrics, 0, 0, "Nov", 2026)>>,
      <<MkPost("bob", "https://twitter.com/bob/status/1", "1", ZeroMetrics, 1, 1, "Dec", 2026)>>,
      <<MkPost("alice", "https://x.com/alice/status/2", "2", ZeroMetrics, 0, 0, "Nov", 2026),
        MkPost("bob", "https://x.com/bob/status/2", "2", FullMetrics, 1, 1, NULL, 2026)>> }

\* the arguments the concurrent callers' queries are made with
QueryArgs == {<<NULL, NullInt>>, <<"Nov", 2026>>}

\* No get_x_posts call was made in the last step.
NoFetch == [month |-> NULL, year |-> NullInt, rows |-> <<>>, locked |-> {},
            during |-> {}, before |-> {}, after |-> {}]

\* A caller outside every store call, holding DatabaseService d.
IdleConn(d) ==
    [pc |-> "idle", db |-> d, op |-> "none", batch |-> <<>>, i |-> 0,
     tweet_id |-> NULL, ambassador |-> NULL,
     rows |-> {},       \* the table as the connection's open transaction has it
     before |-> {}]     \* the table when the transaction was opened

\* the statements of the call a caller is in
Statements(c) == IF c.op = "upsert_x_posts" THEN Len(c.batch) ELSE 1

\* Mutant: conn.commit() inside the for loop: each statement is committed.
TableAfterExecuteCommitted(table, rows) == rows

\* The committed table after a statement of an open transaction has written
\* rows: conn.commit() comes after the loop (db_service.py:190), so it is
\* the table as it was.
TableAfterExecute(table, rows) == table

\* "with self._lock:" and self._get_connection() of upsert_x_posts(batch)
EnterUpsert(w, batch) ==
    /\ conn[w].pc = "idle"
    /\ db_lock[conn[w].db] = 0
    /\ db_lock' = [db_lock EXCEPT ![conn[w].db] = w]
    /\ conn' = [conn EXCEPT ![w] = [IdleConn(@.db) EXCEPT
                   !.pc = "connected", !.op = "upsert_x_posts",
                   !.batch = batch, !.i = 1]]
    /\ fetched' = NoFetch
    /\ UNCHANGED <<x_posts, last, now, write_txn, cache_lock, cache_call,
                   seqVars>>

\* "with self._lock:" and self._get_connection() of
\* update_x_post_ambassador(tweet_id, ambassador)
EnterUpdateAmbassador(w, tweet_id, ambassador) ==
    /\ conn[w].pc = "idle"
    /\ db_lock[conn[w].db] = 0
    /\ db_lock' = [db_lock EXCEPT ![conn[w].db] = w]
    /\ conn' = [conn EXCEPT ![w] = [IdleConn(@.db) EXCEPT
                   !.pc = "connected", !.op = "update_x_post_ambassador",
                   !.tweet_id = tweet_id, !.ambassador = ambassador, !.i = 1]]
    /\ fetched' = NoFetch
    /\ UNCHANGED <<x_posts, last, now, write_txn, cache_lock, cache_call,
                   seqVars>>

\* cursor.execute of the call's next statement.  The first write of a
\* connection takes SQLite's write lock; while another connection holds it
\* the statement raises sqlite3.OperationalError (database is locked) when
\* the busy timeout has passed.  A post with None in a NOT NULL column raises
\* sqlite3.IntegrityError.
Execute(w) ==
    LET c == conn[w]
        rows == IF write_txn = w THEN c.rows ELSE x_posts
        written == IF c.op = "upsert_x_posts"
                   THEN InsertOrUpdate(rows, c.batch[c.i], now)
                   ELSE SetAmbassador(rows, c.tweet_id, c.ambassador, now)
    IN  /\ c.pc = "connected"
        /\ c.i <= Statements(c)
        /\ IF write_txn \notin {0, w}
              \/ (c.op = "upsert_x_posts" /\ ViolatesNotNull(c.batch[c.i]))
           THEN /\ conn' = [conn EXCEPT ![w].pc = "except"]
                /\ UNCHANGED <<x_posts, write_txn>>
           ELSE /\ conn' = [conn EXCEPT ![w].rows = written, ![w].i = c.i + 1,
                                        ![w].before = IF write_txn = w
                                                      THEN c.before ELSE x_posts]
                /\ write_txn' = w
                /\ x_posts' = TableAfterExecute(x_posts, written)
        /\ fetched' = NoFetch
        /\ UNCHANGED <<last, now, db_lock, cache_lock, cache_call,
                   seqVars>>

\* conn.commit() after the last statement: the connection's rows become the
\* table and the write lock is given up.
Commit(w) ==
    /\ conn[w].pc = "connected"
    /\ conn[w].i > Statements(conn[w])
    /\ write_txn = w
    /\ x_posts' = conn[w].rows
    /\ write_txn' = 0
    /\ conn' = [conn EXCEPT ![w].pc = "finally"]
    /\ fetched' = NoFetch
    /\ UNCHANGED <<last, now, db_lock, cache_lock, cache_call,
                   seqVars>>

\* "except Exception: conn.rollback()": the connection's rows are dropped.
Rollback(w) ==
    /\ conn[w].pc = "except"
    /\ write_txn' = IF write_txn = w THEN 0 ELSE write_txn
    /\ conn' = [conn EXCEPT ![w].pc = "finally", ![w].rows = {}]
    /\ fetched' = NoFetch
    /\ UNCHANGED <<x_posts, last, now, db_lock, cache_lock, cache_call,
                   seqVars>>

\* "finally: conn.close()" and the end of the with block.
Leave(w) ==
    /\ conn[w].pc = "finally"
    /\ db_lock' = [db_lock EXCEPT ![conn[w].db] = 0]
    /\ conn' = [conn EXCEPT ![w] = IdleConn(@.db)]
    /\ fetched' = NoFetch
    /\ UNCHANGED <<x_posts, last, now, write_txn, cache_lock, cache_call,
                   seqVars>>

\* The writer whose transaction is open, if any.
OpenTransactions == {w \in Writers : write_txn = w}

\* DatabaseService.get_x_posts(month, year) by any caller: no lock is taken;
\* the SELECT, on a connection of its own, reads the committed table.  With
\* the rows, the record keeps what the query would have returned before the
\* upsert that was open at that moment and after it.
Query(month, year) ==
    /\ fetched' =
         [ month |-> month, year |-> year,
           rows |-> get_x_posts(x_posts, month, year),
           locked |-> {d \in DbInstances : db_lock[d] # 0},
           during |-> {conn[w].batch : w \in {v \in OpenTransactions :
                                                 conn[v].op = "upsert_x_posts"}},
           before |-> {get_x_posts(conn[w].before, month, year) :
                          w \in OpenTransactions},
           after |-> {get_x_posts(Transaction(conn[w].before, conn[w].batch,
                                              now, 0).rows, month, year) :
                         w \in {v \in OpenTransactions :
                                   conn[v].op = "upsert_x_posts"}} ]
    /\ UNCHANGED <<x_posts, last, now, db_lock, conn, write_txn, cache_lock,
                   cache_call, seqVars>>

-----------------------------------------------------------------------------
(* The cache of one LocalDataService under concurrent threads               *)
(* (local_data_service.py:46-64, 360-364), statement by statement.          *)

CacheThreads == {1, 2}

\* the operations a thread calls: _get_cache, _set_cache, clear_cache
CacheOps == {"get", "set", "clear"}

\* A thread outside every cache operation.
IdleCall == [pc |-> "idle", op |-> "none", key |-> NULL, seen |-> NoEntry,
             removed |-> NoEntry]

\* the value the threads store
CachedValue == [leaderboard |-> <<>>, total_impressions_all |-> 0]

\* Mutant: the operations do not take the lock.
AcquirableAlways(lock) == TRUE

\* threading.Lock: "with self._cache_lock:" is entered when nobody holds it.
Acquirable(lock) == lock = 0

\* "with self._cache_lock:" at the head of _get_cache(key), _set_cache(key,
\* value) or clear_cache().
CacheEnter(t, op, key) ==
    /\ cache_call[t].pc = "idle"
    /\ Acquirable(cache_lock)
    /\ cache_lock' = t
    /\ cache_call' = [cache_call EXCEPT ![t] =
                        [IdleCall EXCEPT !.pc = "locked", !.op = op,
                                         !.key = IF op = "clear" THEN NULL ELSE key]]
    /\ UNCHANGED <<x_posts, last, now, db_lock, conn, write_txn, fetched,
                   seqVars>>

\* _get_cache: "if key in self._cache:", the unpacking and the age test.  A
\* fresh entry is returned; an expired one is to be deleted.
CacheGetCheck(t) ==
    LET c == cache_call[t]
    IN  /\ c.pc = "locked" /\ c.op = "get"
        /\ cache_call' = [cache_call EXCEPT
              ![t].seen = cache[c.key],
              ![t].pc = IF cache[c.key] # NoEntry
                           /\ ~Fresh(cache[c.key].timestamp, now)
                        THEN "expired" ELSE "leave"]
        /\ UNCHANGED <<x_posts, last, now, db_lock, conn, write_txn, fetched,
                       cache_lock, seqVars>>

\* _get_cache: "del self._cache[key]".
CacheGetDelete(t) ==
    LET c == cache_call[t]
    IN  /\ c.pc = "expired"
        /\ cache' = [cache EXCEPT ![c.key] = NoEntry]
        /\ cache_call' = [cache_call EXCEPT ![t].removed = cache[c.key],
                                            ![t].pc = "leave"]
        /\ UNCHANGED <<x_posts, last, now, db_lock, conn, write_txn, fetched,
                       cache_lock, cfgVars, botVars, detectorVars, counterVars,
                       sessionVars, loopVars, histVars, pureVars, procVars,
                       secondVars, events, reader, writer, got, versions, ticks>>

\* _set_cache: "self._cache[key] = (value, datetime.now().timestamp())".
CacheSetStore(t) ==
    LET c == cache_call[t]
    IN  /\ c.pc = "locked" /\ c.op = "set"
        /\ cache' = SetCache(cache, c.key, CachedValue, now, versions.store,
                             versions.completed)
        /\ cache_call' = [cache_call EXCEPT ![t].pc = "leave"]
        /\ UNCHANGED <<x_posts, last, now, db_lock, conn, write_txn, fetched,
                       cache_lock, cfgVars, botVars, detectorVars, counterVars,
                       sessionVars, loopVars, histVars, pureVars, procVars,
                       secondVars, events, reader, writer, got, versions, ticks>>

\* clear_cache: "self._cache.clear()".
CacheClearAll(t) ==
    LET c == cache_call[t]
    IN  /\ c.pc = "locked" /\ c.op = "clear"
        /\ cache' = EmptyCache
        /\ cache_call' = [cache_call EXCEPT ![t].pc = "leave"]
        /\ UNCHANGED <<x_posts, last, now, db_lock, conn, write_txn, fetched,
                       cache_lock, cfgVars, botVars, detectorVars, counterVars,
                       sessionVars, loopVars, histVars, pureVars, procVars,
                       secondVars, events, reader, writer, got, versions, ticks>>

\* The end of the with block: the lock is released and the method returns.
CacheLeave(t) ==
    /\ cache_call[t].pc = "leave"
    /\ cache_lock' = IF cache_lock = t THEN 0 ELSE cache_lock
    /\ cache_call' = [cache_call EXCEPT ![t].pc = "idle"]
    /\ UNCHANGED <<x_posts, last, now, db_lock, conn, write_txn, fetched,
                   seqVars>>

\* The wall clock moves while the threads are at work.
CacheTick(d) ==
    /\ ticks < MaxTicks
    /\ ticks' = ticks + 1
    /\ now' = now + d
    /\ UNCHANGED <<x_posts, last, schedVars, cache, reader, writer, got, versions>>

\* No caller is inside the store or the cache.
NoCallers ==
    /\ db_lock = [d \in DbInstances |-> 0]
    /\ conn = [w \in Writers |-> IdleConn(1)]
    /\ write_txn = 0
    /\ fetched = NoFetch
    /\ cache_lock = 0
    /\ cache_call = [t \in CacheThreads |-> IdleCall]

-----------------------------------------------------------------------------
(* NolusBot (discord_bot.py): the scheduled scrape task and the rate limiter *)

\* the invocations of scrape_posts_task the model follows
MaxTriggers == 3
TaskInvocations == 1..MaxTriggers

\* message.author.id of the users who post
Users == {1, 2}
submissions_per_hour == 20
rate_limit_window == 3600
\* "await asyncio.sleep(5)" of the scrape task
TaskDelaySeconds == 5

\* An invocation that has not been triggered yet.
IdleTask == [pc |-> "idle", posts |-> <<>>, k |-> 0, driver_open |-> FALSE,
             success_count |-> 0, fail_count |-> 0]

\* No _check_rate_limit call was made in the last step.
NoRateCall == [user |-> 0]

\* NolusBot.__init__: no timestamps, the scrape task not running.
BotConstructed ==
    /\ scrape_lock = FALSE
    /\ task = [i \in TaskInvocations |-> IdleTask]
    /\ user_submission_timestamps = [u \in Users |-> <<>>]
    /\ rate_call = NoRateCall
    /\ accepted_log = [u \in Users |-> <<>>]

\* "for post in posts: ... if not tweet_url: continue": the first item from
\* position k on that has a URL, or Len(found) + 1 when there is none.
RECURSIVE NextWithUrl(_, _)
NextWithUrl(found, k) ==
    IF k > Len(found) THEN k
    ELSE IF found[k].Tweet_URL # "" THEN k
    ELSE NextWithUrl(found, k + 1)

\* Mutant: the flag is left set when the task ends by an exception.
ScrapeLockAtExitUnlessRaised(how) == how = "exception"

\* "finally: self.scrape_lock = False" of scrape_posts_task, whatever way the
\* task leaves its try block.
ScrapeLockAtExit(how) == FALSE

\* The body of the item loop for item j, up to "await asyncio.sleep(5)":
\* the extractor, and for metrics the store update, whose result the task
\* does not look at.
TaskItem(i, found, j, ext, dbError, counts) ==
    /\ x_posts' = IF ext \in {"metrics", "metrics_with_handle"}
                  THEN update_x_post_metrics(x_posts, found[j].Tweet_URL,
                                             ScrapedMetrics(ext), now, dbError).rows
                  ELSE x_posts
    /\ task' = [task EXCEPT ![i] =
                  [pc |-> "sleeping", posts |-> found, k |-> j, driver_open |-> TRUE,
                   success_count |-> IF ext \in {"metrics", "metrics_with_handle"}
                                     THEN counts.success_count + 1
                                     ELSE counts.success_count,
                   fail_count |-> IF ext \in {"metrics", "metrics_with_handle"}
                                  THEN counts.fail_count
                                  ELSE counts.fail_count + 1]]

\* The task leaves its try block: the driver, if one was opened, has been
\* closed by the inner finally, and the outer finally has run.
TaskExit(i, found, how) ==
    /\ task' = [task EXCEPT ![i].pc = how, ![i].posts = found,
                            ![i].driver_open = FALSE]
    /\ scrape_lock' = ScrapeLockAtExit(how)
    /\ UNCHANGED x_posts

\* scrape_posts_task from its trigger to its first await: the flag test, the
\* work list, the empty-list return, XScraper(), the first item with a URL.
TaskBegin(i) ==
    /\ task[i].pc = "idle"
    /\ IF scrape_lock
       THEN /\ task' = [task EXCEPT ![i].pc = "skipped"]
            /\ UNCHANGED <<scrape_lock, x_posts>>
       ELSE \E readError \in BOOLEAN : \E ok \in BOOLEAN :
            \E ext \in ExtractorOutcomes : \E dbError \in 0..1 :
              LET found == get_current_month_x_posts(x_posts, now, readError)
                  j == NextWithUrl(found, 1)
              IN  IF found = <<>> THEN TaskExit(i, found, "empty")
                  ELSE IF ~ok THEN TaskExit(i, found, "exception")
                  ELSE IF j > Len(found) THEN TaskExit(i, found, "return")
                  ELSE /\ TaskItem(i, found, j, ext, dbError, task[i])
                       /\ scrape_lock' = TRUE
    /\ UNCHANGED <<last, now, user_submission_timestamps, rate_call, accepted_log,
                   db_lock, conn, write_txn, fetched, cache_lock, cache_call,
                   cfgVars, detectorVars, counterVars, sessionVars, loopVars,
                   histVars, pureVars, procVars, secondVars, events, cacheVars>>

\* The sleep after an item is over: the next item with a URL up to its
\* await, or the end of the loop, close_driver and the return.
TaskWake(i) ==
    /\ task[i].pc = "sleeping"
    /\ now' = now + TaskDelaySeconds
    /\ \E ext \in ExtractorOutcomes : \E dbError \in 0..1 :
         LET found == task[i].posts
             j == NextWithUrl(found, task[i].k + 1)
         IN  IF j > Len(found) THEN TaskExit(i, found, "return")
             ELSE /\ TaskItem(i, found, j, ext, dbError, task[i])
                  /\ UNCHANGED scrape_lock
    /\ UNCHANGED <<last, user_submission_timestamps, rate_call, accepted_log,
                   db_lock, conn, write_txn, fetched, cache_lock, cache_call,
                   cfgVars, detectorVars, counterVars, sessionVars, loopVars,
                   histVars, pureVars, procVars, secondVars, events, cacheVars>>

\* The task is cancelled while it sleeps: CancelledError is raised at the
\* await, passes "except Exception" and runs both finally blocks.
TaskCancel(i) ==
    /\ task[i].pc = "sleeping"
    /\ TaskExit(i, task[i].posts, "cancelled")
    /\ UNCHANGED <<last, now, user_submission_timestamps, rate_call, accepted_log,
                   db_lock, conn, write_txn, fetched, cache_lock, cache_call,
                   cfgVars, detectorVars, counterVars, sessionVars, loopVars,
                   histVars, pureVars, procVars, secondVars, events, cacheVars>>

\* Mutant: a timestamp is kept while its age is at most the window.
KeptTimestampsAtWindow(timestamps, t) ==
    SelectSeq(timestamps, LAMBDA ts : t - ts <= rate_limit_window)

\* "timestamps[:] = [ts for ts in timestamps if now - ts < self.rate_limit_window]"
KeptTimestamps(timestamps, t) ==
    SelectSeq(timestamps, LAMBDA ts : t - ts < rate_limit_window)

\* NolusBot._check_rate_limit(user_id) at the clock's time.
CheckRateLimit(user_id) ==
    LET kept == KeptTimestamps(user_submission_timestamps[user_id], now)
        is_allowed == ~(Len(kept) >= submissions_per_hour)
    IN  /\ user_submission_timestamps' =
              [user_submission_timestamps EXCEPT
                 ![user_id] = IF is_allowed THEN Append(kept, now) ELSE kept]
        /\ accepted_log' =
              [accepted_log EXCEPT
                 ![user_id] = IF is_allowed THEN Append(@, now) ELSE @]
        /\ rate_call' = [user |-> user_id, is_allowed |-> is_allowed, at |-> now]
        /\ UNCHANGED <<x_posts, last, now, scrape_lock, task,
                       db_lock, conn, write_txn, fetched, cache_lock, cache_call,
                       cfgVars, detectorVars, counterVars, sessionVars, loopVars,
                       histVars, pureVars, procVars, secondVars, events, cacheVars>>

-----------------------------------------------------------------------------
\* XScraperScheduler.__init__: no scraper yet; the run has not started.
SchedulerIdle ==
    /\ BotConstructed
    /\ scraper = 0 /\ open_drivers = {} /\ sessions = 0
    /\ posts = <<>> /\ idx = 0 /\ chunks_left = 0
    /\ stats = [total |-> NullInt]
    /\ trail = <<>> /\ outcome = "none" /\ streak = 0 /\ error = "none"
    /\ runs = 0
    /\ verdict = "none" /\ wait_seconds = NullInt
    /\ events = <<>>
    /\ exit_status = NullInt /\ stop = "none"
    /\ pc2 = "idle" /\ posts2 = <<>> /\ idx2 = 0

SchedulerRest ==
    /\ SchedulerIdle
    /\ NoCallers
    /\ CacheConstructed

\* The fields XScraperScheduler.__init__ assigns, with the configuration
\* defaults.
SchedulerFields ==
    /\ consecutive_failures = 0
    /\ last_success_time = now
    /\ total_processed = 0 /\ total_success = 0 /\ total_failed = 0
    /\ max_consecutive_failures = DefaultMaxFailures
    /\ blocking_base_wait_minutes = DefaultBaseWaitMinutes
    /\ blocking_max_wait_hours = DefaultMaxWaitHours
    /\ sheets_service = "SheetsService"
    /\ mode = "once"
    /\ pc = "idle"

\* XScraperScheduler.__init__ with the configuration defaults, before the
\* first run.
SchedulerConstructed ==
    /\ SchedulerFields
    /\ SchedulerRest

Init ==
    /\ x_posts = {}
    /\ last = [op |-> "none"]
    /\ now = 0
    /\ SchedulerConstructed

StoreNext ==
    \/ \E batch \in Batches : \E dbError \in 0..(Len(batch) + 1) :
          upsert_x_posts(batch, dbError)
    \/ \E t \in TweetIds : \E a \in Ambassadors : \E dbError \in BOOLEAN :
          update_x_post_ambassador(t, a, dbError)

SpecStore == Init /\ [][StoreNext]_vars

\* A submission as add_content stores it (local_data_service.py:637-649):
\* zero counts, the month of the submission.  Submission 1 was filed by bob;
\* the tweets are alice's.
SubmittedRow(k, url, t) ==
    [ id |-> k, ambassador |-> IF k = 1 THEN "bob" ELSE "alice",
      tweet_url |-> url,
      tweet_id |-> StatusIdOf(WorkUrls[k]),
      impressions |-> 0, likes |-> 0, retweets |-> 0, replies |-> 0,
      date_posted |-> t, submitted_date |-> t,
      month |-> MonthName(0), year |-> YearOf(0), last_updated |-> t ]

\* The configurations the scheduler is constructed with: the defaults, and
\* two with lower thresholds.
SchedConfigs == { <<DefaultMaxFailures, DefaultBaseWaitMinutes, DefaultMaxWaitHours>>,
                  <<2, DefaultBaseWaitMinutes, DefaultMaxWaitHours>>,
                  <<1, 1, 1>> }

\* main() about to construct the scheduler, with the values __init__ will
\* assign, over a store that holds n submissions of the current month, the
\* newest of which may have lost its URL.
SchedInit ==
    /\ now = 0
    /\ last = [op |-> "none"]
    /\ \E n \in 0..MaxPosts : \E blank \in {0, 1} :
          x_posts = { SubmittedRow(k, IF k = blank THEN "" ELSE WorkUrls[k], 0 - k)
                      : k \in 1..n }
    /\ consecutive_failures = 0
    /\ last_success_time = now
    /\ total_processed = 0 /\ total_success = 0 /\ total_failed = 0
    /\ \E c \in SchedConfigs :
          /\ max_consecutive_failures = c[1]
          /\ blocking_base_wait_minutes = c[2]
          /\ blocking_max_wait_hours = c[3]
    /\ sheets_service \in DataServices
    /\ mode \in Modes
    /\ pc = "main"
    /\ SchedulerRest

SchedNext ==
    \/ Main
    \/ RunOnceExit
    \/ BeginRun
    \/ CheckBlocked
    \/ WaitChunk
    \/ WaitDone
    \/ Reinit
    \/ ScrapeItem
    \/ Delay
    \/ FinishRun
    \/ SleepUntilNextRun
    \/ SleepAfterError

SpecSched == SchedInit /\ [][SchedNext]_vars

\* The steps of process_current_month_tweets after its start: the thread
\* that runs it keeps executing, and time.sleep returns.
RunSteps ==
    \/ CheckBlocked
    \/ WaitChunk
    \/ WaitDone
    \/ Reinit
    \/ ScrapeItem
    \/ Delay
    \/ FinishRun

SpecSchedFair == SpecSched /\ WF_vars(RunSteps)

\* The scheduler with the stop signal.
StopNext ==
    \/ SchedNext
    \/ Interrupt

SpecStop == SchedInit /\ [][StopNext]_vars

\* main() in once mode with the default configuration, the scheduler bound
\* to the data service that has the two methods, over a store that holds
\* BacklogPosts submissions of the current month.
BacklogInit ==
    /\ now = 0
    /\ last = [op |-> "none"]
    /\ x_posts = { SubmittedRow(k, WorkUrls[k], 0 - k) : k \in 1..BacklogPosts }
    /\ consecutive_failures = 0
    /\ last_success_time = now
    /\ total_processed = 0 /\ total_success = 0 /\ total_failed = 0
    /\ max_consecutive_failures = DefaultMaxFailures
    /\ blocking_base_wait_minutes = DefaultBaseWaitMinutes
    /\ blocking_max_wait_hours = DefaultMaxWaitHours
    /\ sheets_service = "AmbassadorService"
    /\ mode = "once"
    /\ pc = "main"
    /\ SchedulerRest

\* The steps of main() in once mode.
OnceNext ==
    \/ Main
    \/ RunOnceExit
    \/ BeginRun
    \/ CheckBlocked
    \/ WaitChunk
    \/ WaitDone
    \/ Reinit
    \/ ScrapeItem
    \/ Delay
    \/ FinishRun

SpecBacklog == BacklogInit /\ [][OnceNext]_vars

\* main() in once mode, the scheduler configured to block on the first
\* failure and to wait one minute, bound to the data service that has the two
\* methods, over a store that holds MaxPosts submissions of the current month.
ReentryInit ==
    /\ now = 0
    /\ last = [op |-> "none"]
    /\ x_posts = { SubmittedRow(k, WorkUrls[k], 0 - k) : k \in 1..MaxPosts }
    /\ consecutive_failures = 0
    /\ last_success_time = now
    /\ total_processed = 0 /\ total_success = 0 /\ total_failed = 0
    /\ max_consecutive_failures = 1
    /\ blocking_base_wait_minutes = 1
    /\ blocking_max_wait_hours = 1
    /\ sheets_service = "AmbassadorService"
    /\ mode = "once"
    /\ pc = "main"
    /\ SchedulerRest

\* The run of once mode with a second caller of
\* process_current_month_tweets.
ReentryNext ==
    \/ OnceNext
    \/ SecondBeginRun
    \/ SecondCheckBlocked
    \/ SecondScrapeItem
    \/ SecondFinishRun

SpecReentry == ReentryInit /\ [][ReentryNext]_vars

\* The moves of the clock between cache operations: one second, and one
\* second less than the default TTL.
TickChoices == {1, cache_ttl - 1}

\* A LocalDataService with a reader and an add_content writer, the metrics
\* writer beside it, and the clock.
CacheRaceNext ==
    \/ \E a \in LeaderboardArgs : GetXLeaderboard(a[1], a[2])
    \/ ComputeXLeaderboard
    \/ CacheXLeaderboard
    \/ \E url \in ContentUrls : \E dbError \in 0..1 :
          AddContentUpsert("alice", url, dbError)
    \/ AddContentClear
    \/ ClearCache
    \/ \E d \in TickChoices : Tick(d)

CacheNext ==
    \/ CacheRaceNext
    \/ \E url \in ContentUrls : \E dbError \in 0..1 :
          UpdateXPostMetrics(url, "metrics", dbError)

SpecCache == Init /\ [][CacheNext]_vars

\* The same without the metrics writer.
SpecCacheRace == Init /\ [][CacheRaceNext]_vars

\* blocking_base_wait_minutes as config.json can give it (json.load, no type
\* check in Config.get): whole minutes and halves of a minute, as num / den.
BaseWaitChoices == { [num |-> 1, den |-> 2], [num |-> 1, den |-> 1],
                     [num |-> 3, den |-> 2], [num |-> 2, den |-> 1] }

\* _calculate_wait_time for a base wait of base.num / base.den minutes, in
\* seconds: min(base * 2 ** (cf // 5), maxh * 60) * 60.  The products are
\* whole numbers of seconds for the bases above.
CalculateWaitTimeOfFraction(cf, base, maxh) ==
    LET exponent == cf \div 5
        wait_seconds_uncapped == (base.num * (2 ^ exponent) * 60) \div base.den
        max_wait_seconds == maxh * 60 * 60
    IN  Min(wait_seconds_uncapped, max_wait_seconds)

\* "chunks = int(wait_seconds / chunk_size)"
Chunks(seconds) == seconds \div chunk_size

\* _wait_for_unblock up to its loop: the wait is computed and cut in chunks.
WaitForUnblock ==
    /\ pc = "blocked"
    /\ wait_seconds' = CalculateWaitTimeOfFraction(consecutive_failures,
                                                   blocking_base_wait_minutes,
                                                   blocking_max_wait_hours)
    /\ chunks_left' = Chunks(wait_seconds')
    /\ pc' = "wait"
    /\ UNCHANGED <<x_posts, last, now, cfgVars, concVars, botVars, procVars, secondVars,
                   events, detectorVars, counterVars, sessionVars, posts, idx,
                   stats, histVars, verdict, cacheVars>>

\* A scheduler that the detector has just found blocked, at the call of
\* _wait_for_unblock, the clock at 0.
WaitInit ==
    /\ x_posts = {}
    /\ last = [op |-> "none"]
    /\ now = 0
    /\ consecutive_failures \in 3..MaxFailures
    /\ last_success_time = 0 - (NoSuccessWindow + 1)
    /\ total_processed = 0 /\ total_success = 0 /\ total_failed = 0
    /\ max_consecutive_failures = DefaultMaxFailures
    /\ blocking_base_wait_minutes \in BaseWaitChoices
    /\ blocking_max_wait_hours = 1
    /\ sheets_service = "AmbassadorService"
    /\ mode = "once"
    /\ pc = "blocked"
    /\ SchedulerRest

WaitNext ==
    \/ WaitForUnblock
    \/ WaitChunk
    \/ WaitDone

SpecWait == WaitInit /\ [][WaitNext]_vars

\* Submissions of tweets 1 and 2 of the current month: tweet 1 was posted
\* and submitted a seconds before the clock starts, tweet 2 b seconds.
TwoRowsOf(a, b) == { SubmittedRow(1, WorkUrls[1], 0 - a), SubmittedRow(2, WorkUrls[2], 0 - b) }

\* A submission of October 2026 (tweet 3), never scraped since.
OctoberRow ==
    [ SubmittedRow(3, WorkUrls[3], 0 - 2600000) EXCEPT !.month = "Oct" ]

\* The periods get_x_posts is called with: none, the current month, an
\* earlier month, a month without rows.
PeriodArgs == { <<NULL, NullInt>>, <<"Nov", 2026>>, <<"Oct", 2026>>, <<"Dec", 2026>> }

\* A table with submissions of two months, the metrics writer that the
\* scrape task and the scheduler call, the clock, and callers of
\* get_x_posts.
QueryInit ==
    /\ x_posts \in { TwoRowsOf(1, 2) \cup {OctoberRow}, TwoRowsOf(2, 1) \cup {OctoberRow},
                      {OctoberRow}, {} }
    /\ last = [op |-> "none"]
    /\ now = 0
    /\ SchedulerConstructed

QueryNext ==
    \/ \E k \in 1..3 : \E dbError \in 0..1 :
          UpdateXPostMetrics(WorkUrls[k], "metrics", dbError)
    \/ \E d \in TickChoices : Tick(d)
    \/ \E a \in PeriodArgs : Query(a[1], a[2])

SpecQuery == QueryInit /\ [][QueryNext]_vars

\* most clock steps between the calls of the store's writing methods
MaxStoreTicks == 1

\* The callers of the store's two writing methods while the clock moves.
ReassignNext ==
    \/ StoreNext
    \/ /\ ticks < MaxStoreTicks
       /\ Tick(1)

SpecReassign == Init /\ [][ReassignNext]_vars

\* The bot over a table of up to MaxPosts submissions of the current month,
\* its scrape task triggered MaxTriggers times.
ScrapeTaskInit ==
    /\ now = 0
    /\ last = [op |-> "none"]
    /\ \E n \in 0..MaxPosts : \E blank \in {0, 1} :
          x_posts = { SubmittedRow(k, IF k = blank THEN "" ELSE WorkUrls[k], 0 - k)
                      : k \in 1..n }
    /\ SchedulerConstructed

ScrapeTaskNext ==
    \/ \E i \in TaskInvocations : TaskBegin(i)
    \/ \E i \in TaskInvocations : TaskWake(i)
    \/ \E i \in TaskInvocations : TaskCancel(i)

SpecScrapeTask == ScrapeTaskInit /\ [][ScrapeTaskNext]_vars

\* most messages of each user that pass the limiter
MaxMessages == <<21, 1>>

\* most clock steps between the messages
MaxRateTicks == 2

\* one second, and one second less than the window
RateTickChoices == {1, rate_limit_window - 1}

\* Messages of two users in the monitored channels while the clock moves:
\* on_message calls _check_rate_limit once per message, before anything else.
RateLimitInit ==
    /\ x_posts = {}
    /\ last = [op |-> "none"]
    /\ now = 0
    /\ SchedulerConstructed

RateLimitNext ==
    \/ \E u \in Users :
          /\ Len(accepted_log[u]) < MaxMessages[u]
          /\ CheckRateLimit(u)
    \/ \E d \in RateTickChoices :
          /\ ticks < MaxRateTicks
          /\ CacheTick(d)

SpecRateLimit == RateLimitInit /\ [][RateLimitNext]_vars

\* The dashboard process serving /api/x-leaderboard from its LocalDataService
\* while the scheduler process, bound to the data service that has the two
\* methods, does one run over the same database file.
DashboardScrapeInit ==
    /\ SchedInit
    /\ sheets_service = "AmbassadorService"
    /\ mode = "once"

DashboardScrapeNext ==
    \/ OnceNext
    \/ \E a \in LeaderboardArgs : GetXLeaderboard(a[1], a[2])
    \/ ComputeXLeaderboard
    \/ CacheXLeaderboard

SpecDashboardScrape == DashboardScrapeInit /\ [][DashboardScrapeNext]_vars

\* Rows of tweets 1 and 2 as add_content stored them.
TwoRows == { SubmittedRow(k, WorkUrls[k], 0 - k) : k \in 1..2 }

\* Two callers that write and any number that read, over an empty table or
\* one that holds two rows.  The writers hold the same DatabaseService (two
\* threads of one process) or one each (two processes, or two services of
\* one process).
WritersInit ==
    /\ now = 0
    /\ last = [op |-> "none"]
    /\ x_posts \in {{}, TwoRows}
    /\ SchedulerFields
    /\ SchedulerIdle
    /\ CacheConstructed
    /\ db_lock = [d \in DbInstances |-> 0]
    /\ \E d \in DbInstances : conn = [w \in Writers |-> IdleConn(IF w = 1 THEN 1 ELSE d)]
    /\ write_txn = 0
    /\ fetched = NoFetch
    /\ cache_lock = 0
    /\ cache_call = [t \in CacheThreads |-> IdleCall]

WritersNext ==
    \/ \E w \in Writers : \E batch \in WriterBatches : EnterUpsert(w, batch)
    \/ \E w \in Writers : \E a \in Ambassadors :
          EnterUpdateAmbassador(w, "1", a)
    \/ \E w \in Writers : Execute(w)
    \/ \E w \in Writers : Commit(w)
    \/ \E w \in Writers : Rollback(w)
    \/ \E w \in Writers : Leave(w)
    \/ \E a \in QueryArgs : Query(a[1], a[2])

SpecWriters == WritersInit /\ [][WritersNext]_vars

\* The threads of one process at the cache of its LocalDataService, and the
\* clock.
CacheLockNext ==
    \/ \E t \in CacheThreads : \E op \in CacheOps : \E key \in CacheKeys :
          CacheEnter(t, op, key)
    \/ \E t \in CacheThreads : CacheGetCheck(t)
    \/ \E t \in CacheThreads : CacheGetDelete(t)
    \/ \E t \in CacheThreads : CacheSetStore(t)
    \/ \E t \in CacheThreads : CacheClearAll(t)
    \/ \E t \in CacheThreads : CacheLeave(t)
    \/ \E d \in TickChoices : CacheTick(d)

SpecCacheLock == Init /\ [][CacheLockNext]_vars

\* The detector and the backoff policy on their own: a scheduler in any state
\* of its failure counter, its last success time and its configuration.
PureInit ==
    /\ x_posts = {}
    /\ last = [op |-> "none"]
    /\ now \in DetectorTimes
    /\ consecutive_failures \in 0..MaxFailures
    /\ last_success_time \in {t \in DetectorTimes : t <= now}
    /\ total_processed = 0 /\ total_success = 0 /\ total_failed = 0
    /\ max_consecutive_failures \in {2, DefaultMaxFailures}
    /\ \E c \in {<<DefaultBaseWaitMinutes, DefaultMaxWaitHours>>, <<45, 1>>, <<90, 1>>} :
          blocking_base_wait_minutes = c[1] /\ blocking_max_wait_hours = c[2]
    /\ sheets_service = "SheetsService"
    /\ scraper = 0 /\ open_drivers = {} /\ sessions = 0
    /\ pc = "idle" /\ posts = <<>> /\ idx = 0 /\ chunks_left = 0
    /\ stats = [total |-> NullInt]
    /\ trail = <<>> /\ outcome = "none" /\ streak = 0 /\ error = "none"
    /\ runs = 0
    /\ verdict = "none" /\ wait_seconds = NullInt
    /\ events = <<>>
    /\ mode = "once" /\ exit_status = NullInt /\ stop = "none"
    /\ pc2 = "idle" /\ posts2 = <<>> /\ idx2 = 0
    /\ NoCallers
    /\ BotConstructed
    /\ CacheConstructed

PureNext == CallIsBlocked \/ CallCalculateWaitTime

SpecPure == PureInit /\ [][PureNext]_vars

\* the claim's formula for the verdict
BlockedBySpec(cf, maxf, lst, t) ==
    cf >= maxf \/ (cf >= 3 /\ t - lst > 30 * 60)

\* C3: whenever _is_blocked has been called, its verdict is true exactly if
\* consecutive_failures >= max_consecutive_failures, or consecutive_failures
\* >= 3 and more than 30 minutes have passed since last_success_time; with
\* the default threshold of 5, 3 failures and a success 31 minutes ago is
\* blocked and 3 failures and a success 10 minutes ago is not.
C3_IsBlockedFormula ==
    /\ verdict # "none" =>
          (verdict = "True" <=>
             BlockedBySpec(consecutive_failures, max_consecutive_failures,
                           last_success_time, now))
    /\ ( /\ verdict # "none" /\ max_consecutive_failures = 5
         /\ consecutive_failures = 3 /\ now - last_success_time = 31 * 60 )
          => verdict = "True"
    /\ ( /\ verdict # "none" /\ max_consecutive_failures = 5
         /\ consecutive_failures = 3 /\ now - last_success_time = 10 * 60 )
          => verdict = "False"

\* _is_blocked has answered for 3 failures and a last success exactly 30
\* minutes ago, under the default threshold: the boundary of condition (b).
C3_Witness ==
    /\ verdict = "False"
    /\ max_consecutive_failures = 5 /\ consecutive_failures = 3
    /\ now - last_success_time = 30 * 60

\* the claim's formula for the wait, in seconds
WaitBySpec(cf, base, maxh) ==
    (IF base * (2 ^ (cf \div 5)) <= maxh * 60
     THEN base * (2 ^ (cf \div 5)) ELSE maxh * 60) * 60

\* C4: whenever _calculate_wait_time has been called its result is
\* min(base * 2^(failures // 5), maxHours * 60) * 60 seconds, at most
\* maxHours * 3600 seconds, at least the wait of every smaller failure count,
\* and with base 30 and max 8 it is 480 minutes for 30 failures and 120
\* minutes for 12.
C4_BackoffFormula ==
    wait_seconds # NullInt =>
      /\ wait_seconds = WaitBySpec(consecutive_failures,
                                   blocking_base_wait_minutes,
                                   blocking_max_wait_hours)
      /\ wait_seconds <= blocking_max_wait_hours * 3600
      /\ \A c \in 0..consecutive_failures :
            CalculateWaitTime(c, blocking_base_wait_minutes,
                              blocking_max_wait_hours) <= wait_seconds
      /\ (blocking_base_wait_minutes = 30 /\ blocking_max_wait_hours = 8) =>
            /\ consecutive_failures = 30 => wait_seconds = 480 * 60
            /\ consecutive_failures = 12 => wait_seconds = 120 * 60

\* The wait has been computed for 30 failures under base 30 and max 8, where
\* the exponential (30 * 2^6 minutes) is above the cap.
C4_Witness ==
    /\ wait_seconds = 480 * 60
    /\ consecutive_failures = 30
    /\ blocking_base_wait_minutes = 30 /\ blocking_max_wait_hours = 8

-----------------------------------------------------------------------------
(* Claims about the scheduler *)

\* C2: the _scrape_single_tweet call that completes a streak of exactly
\* max_consecutive_failures blocking-class extraction failures, counted from
\* consecutive_failures = 0, leaves _is_blocked true; every call in which the
\* extraction and the store write both succeed leaves consecutive_failures = 0
\* and _is_blocked false.
C2_BlockingThreshold ==
    [][ /\ (pc = "scrape" /\ outcome' = "blocking"
              /\ streak' = max_consecutive_failures) =>
             IsBlocked(consecutive_failures', max_consecutive_failures,
                       last_success_time', now')
        /\ (pc = "scrape" /\ outcome' = "success") =>
             /\ consecutive_failures' = 0
             /\ ~IsBlocked(consecutive_failures', max_consecutive_failures,
                           last_success_time', now')
      ]_vars

\* The second of two blocking-class failures in a row has just been counted
\* against a threshold of 2 or more.
C2_Witness ==
    /\ outcome = "blocking"
    /\ streak = max_consecutive_failures
    /\ streak >= 2
    /\ consecutive_failures = streak

\* C5: during _wait_for_unblock last_success_time and the run counters do not
\* change, and consecutive_failures changes only when the wait completes, from
\* n to max(0, n - 2).
C5_BackoffDecay ==
    [][ pc = "wait" =>
          /\ UNCHANGED <<last_success_time, total_processed, total_success,
                         total_failed>>
          /\ consecutive_failures' =
               IF pc' = "reinit"
               THEN (IF consecutive_failures >= 2 THEN consecutive_failures - 2
                     ELSE 0)
               ELSE consecutive_failures
      ]_vars

\* A wait has just completed that began with three failures counted.
C5_Witness ==
    /\ pc = "reinit"
    /\ consecutive_failures = 1
    /\ max_consecutive_failures = DefaultMaxFailures

\* C10, as claimed: a run over a non-empty work list of the current month
\* does not raise for anything but a driver that cannot be started, and when
\* it returns it has handed every item to _scrape_single_tweet once, in list
\* order, and reports total = n.
C10_EveryItemOnce ==
    /\ (pc = "raised" /\ get_x_posts(x_posts, MonthName(now), YearOf(now)) # <<>>) =>
          error = "init_scraper"
    /\ (pc = "returned" /\ posts # <<>>) =>
          /\ stats.total = Len(posts)
          /\ trail = [k \in 1..Len(posts) |-> posts[k].tweet_id]

-----------------------------------------------------------------------------
(* Claims about the cache *)

\* C6: a _get_cache call returns a value exactly when the key is cached and
\* now - insertedAt < ttl, and then it is the stored value; so no call returns
\* an entry whose age is ttl or more (with the default ttl of 300 s, a value
\* set at 0 is returned at 299 and absent at 301).
C6_CacheTtl ==
    got.key # NULL =>
        /\ got.hit <=> (got.found /\ got.age < cache_ttl)
        /\ got.hit => got.returned_stored

\* A value set at time 0 has just been returned at time ttl - 1.
C6_Witness ==
    /\ got.key # NULL
    /\ got.hit
    /\ got.age = cache_ttl - 1
    /\ now = cache_ttl - 1

\* C7, as claimed: a _get_cache call that returns a value returns one that
\* was cached after the last successful upsert had completed; a key cached
\* before the write misses.
C7_WriteInvalidates ==
    (got.key # NULL /\ got.hit) => got.set_after = got.completed

\* C8, as claimed: a _get_cache call that returns a value returns one that
\* was computed from the table as it stood at or after the most recent
\* completed write.
C8_NoStaleAggregate ==
    (got.key # NULL /\ got.hit) => got.read_version >= got.completed

-----------------------------------------------------------------------------
(* Claims about the run loop *)

\* C11: when _is_blocked is true as an item is reached and the extractor is
\* then invoked for that item, exactly this has happened in between, in this
\* order: the backoff wait completed, the session held before the wait was
\* closed, a fresh session was opened; and the extractor was invoked on the
\* fresh session, not on the one held before the wait.
C11_FreshSessionAfterBlock ==
    (/\ events # <<>>
     /\ events[1].e = "blocked"
     /\ events[Len(events)].e = "extract") =>
        /\ Len(events) = 5
        /\ events[2] = Event("waited", events[1].s)
        /\ events[3] = Event("closed", events[1].s)
        /\ events[4].e = "opened"
        /\ events[4].s # events[1].s
        /\ events[5].s = events[4].s
        /\ events[1].s \notin open_drivers

\* An item that was reached blocked has just been extracted on the run's
\* second session.
C11_Witness ==
    /\ Len(events) = 5
    /\ events[1] = Event("blocked", 1)
    /\ events[5] = Event("extract", 2)
    /\ pc \in {"delay", "close"}

C14_StopTerminates ==
    [][ (stop = "none" /\ stop' = "sent") =>
          /\ pc' = "stopped"
          /\ open_drivers' = {}
          /\ now' - now <= chunk_size
      ]_vars

\* C15, as claimed: when process_current_month_tweets returns or raises, on
\* whichever path, no extractor session is open.
C15_SessionReleased ==
    pc \in {"returned", "raised"} => open_drivers = {}

\* C16: consecutive_failures is never negative, and whenever it changes the
\* step is one of three: _scrape_single_tweet met a failed extraction and
\* added 1; _scrape_single_tweet succeeded and set it to 0; _wait_for_unblock
\* ended and took it from n to max(0, n - 2).
C16_FailureCounterMoves ==
    /\ [](consecutive_failures >= 0)
    /\ [][ consecutive_failures' # consecutive_failures =>
             \/ /\ pc = "scrape"
                /\ outcome' \in {"blocking", "transient", "exception"}
                /\ consecutive_failures' = consecutive_failures + 1
             \/ /\ pc = "scrape"
                /\ outcome' = "success"
                /\ consecutive_failures' = 0
             \/ /\ pc = "wait" /\ pc' = "reinit"
                /\ consecutive_failures' =
                     (IF consecutive_failures > 2 THEN consecutive_failures - 2
                      ELSE 0)
         ]_vars

\* A wait that began with one failure counted has just ended, and the floor
\* has set the counter to 0.
C16_Witness ==
    /\ pc = "reinit"
    /\ max_consecutive_failures = 1
    /\ consecutive_failures = 0
    /\ Len(events) = 2
    /\ outcome = "none"

-----------------------------------------------------------------------------
(* Claims about the identity of stored rows *)

\* C17: every step of upsert_x_posts and update_x_post_ambassador keeps every
\* stored row, with the tweet_id, tweet_url, month and year it was inserted
\* with; a row's ambassador changes only in an update_x_post_ambassador call
\* for its tweet_id, to the ambassador of that call, never in an upsert.
C17_IdentityImmutable ==
    [][ \A old \in x_posts :
          \E new \in x_posts' :
             /\ new.id = old.id
             /\ new.tweet_id = old.tweet_id
             /\ new.tweet_url = old.tweet_url
             /\ new.month = old.month
             /\ new.year = old.year
             /\ new.ambassador # old.ambassador =>
                   /\ last'.op = "update_x_post_ambassador"
                   /\ last'.tweet_id = old.tweet_id
                   /\ last'.ambassador = new.ambassador
      ]_vars

\* Tweet 1, inserted as alice's, upserted again with bob's post, has just
\* been reassigned to bob: the row has the counts of the second upsert, the
\* url and period of the insert, and the owner of the reassignment.
C17_Witness ==
    /\ last.op = "update_x_post_ambassador" /\ last.result
    /\ last.tweet_id = "1" /\ last.ambassador = "bob"
    /\ \E r \in x_posts :
          /\ r.tweet_id = "1"
          /\ r.ambassador = "bob"
          /\ r.tweet_url = "https://x.com/alice/status/1"
          /\ r.month = "Nov"
          /\ Counts(r) = Counts(FullMetrics)

-----------------------------------------------------------------------------
(* Claims about the process *)

\* The run of once mode returned its statistics.
RunCompleted == runs = 1 /\ error = "none" /\ stats.total # NullInt

\* The process failed before the run reached its work list: the scheduler
\* (and with it the store) could not be constructed, or the extractor session
\* could not be opened at the start of the run.
SetupFailed ==
    \/ error = "setup"
    \/ (error = "init_scraper" /\ trail = <<>> /\ events = <<>>)

-----------------------------------------------------------------------------
(* Claims about the run over an empty work list, the returned verdict, the   *)
(* sleeps and the delays                                                     *)

\* The store holds no row of the current month.
NoCurrentMonthRows == get_x_posts(x_posts, MonthName(now), YearOf(now)) = <<>>

\* C21, as claimed: a run that starts while the store holds no row of the
\* current month, and whose extractor session could be opened, returns
\* total = 0, success = 0, failed = 0 in that same step: nothing was handed to
\* the extractor, the clock has not moved (no delay, no backoff wait), and
\* consecutive_failures and last_success_time are what they were.
C21_EmptyRunReturnsZero ==
    [][ (pc = "idle" /\ runs' = runs + 1 /\ NoCurrentMonthRows
           /\ error' # "init_scraper") =>
          /\ pc' = "returned"
          /\ stats'.total = 0 /\ stats'.success = 0 /\ stats'.failed = 0
          /\ trail' = <<>>
          /\ now' = now
          /\ UNCHANGED <<detectorVars, x_posts>>
      ]_vars

C23_SleepIsInterval ==
    /\ []((mode = "continuous" /\ runs = 0) => now = 0)
    /\ [][ (mode = "continuous" /\ pc \in {"returned", "raised"} /\ pc' = "idle") =>
             LET failed == IF pc = "returned" THEN stats.failed ELSE total_failed
                 success == IF pc = "returned" THEN stats.success ELSE total_success
             IN  now' - now = (IF failed > success
                               THEN (schedule_interval_minutes * 60 * 3) \div 2
                               ELSE schedule_interval_minutes * 60)
         ]_vars

\* C23, amended: in continuous mode no time has passed when the first run
\* starts; the sleep that follows a run that returned its statistics is 1.5
\* times schedule_interval_minutes if the statistics have failed > success and
\* schedule_interval_minutes if not, whatever the runs before it did; the
\* sleep that follows a run that raised is 300 seconds.
C23_SleepAfterRun ==
    /\ []((mode = "continuous" /\ runs = 0) => now = 0)
    /\ [][ (mode = "continuous" /\ pc = "returned" /\ pc' = "idle") =>
             /\ stats.failed > stats.success =>
                  now' - now = (schedule_interval_minutes * 60 * 3) \div 2
             /\ stats.failed <= stats.success =>
                  now' - now = schedule_interval_minutes * 60
         ]_vars
    /\ [][ (mode = "continuous" /\ pc = "raised" /\ pc' = "idle") =>
             now' - now = RetrySleepSeconds
         ]_vars

\* The second run, in which one item failed and one succeeded, has been
\* followed by a sleep of the plain interval, the first run, in which both
\* items failed, by a sleep of 1.5 times the interval.
C23_Witness ==
    /\ mode = "continuous" /\ pc = "idle" /\ runs = 2
    /\ stats.total = 2 /\ stats.failed = 1 /\ stats.success = 1
    /\ now >= (schedule_interval_minutes * 60 * 5) \div 2
    /\ now < schedule_interval_minutes * 60 * 3

-----------------------------------------------------------------------------
(* Claims about concurrent callers of the store and the cache *)

\* The callers inside "with self._lock:" of upsert_x_posts or
\* update_x_post_ambassador.
InWriteSection == {w \in Writers : conn[w].pc # "idle"}

\* C25, as claimed: whichever DatabaseService objects the callers hold, at
\* most one caller at a time is inside the locked section of a store write.
C25_OneWriteLock == Cardinality(InWriteSection) <= 1

\* C26: a get_x_posts call made while an upsert_x_posts (or an
\* update_x_post_ambassador) transaction is open returns the rows the same
\* query gives on the table as it was before that call or as it is after the
\* whole call, never rows in which part of the batch is applied; and the
\* query can be made in every state, whoever holds a DatabaseService lock or
\* SQLite's write lock.
C26_QuerySeesWholeBatches ==
    /\ fetched.before # {} => fetched.rows \in (fetched.before \cup fetched.after)
    /\ \A a \in QueryArgs : ENABLED Query(a[1], a[2])

\* A query was answered, with the table as it was, while a caller held its
\* DatabaseService lock with the first of the two statements of its batch
\* executed and not committed.
C26_Witness ==
    /\ fetched.locked # {}
    /\ \E w \in Writers :
          /\ write_txn = w
          /\ conn[w].op = "upsert_x_posts"
          /\ Len(conn[w].batch) = 2
          /\ conn[w].i = 2
          /\ conn[w].rows # x_posts
    /\ fetched.rows \in fetched.before
    /\ fetched.rows \notin fetched.after
    /\ fetched.rows # <<>>

\* The threads inside "with self._cache_lock:".
InCacheSection == {t \in CacheThreads : cache_call[t].pc # "idle"}

\* C27: at most one thread at a time is inside _get_cache, _set_cache or
\* clear_cache of a LocalDataService; and the entry that "del
\* self._cache[key]" of _get_cache removes is the entry its age test looked
\* at, still expired: never one that a _set_cache has stored since.
C27_CacheOpsExclusive ==
    /\ [](Cardinality(InCacheSection) <= 1)
    /\ [][ \A t \in CacheThreads :
             (cache_call[t].pc = "expired" /\ cache_call'[t].pc = "leave") =>
                /\ cache[cache_call[t].key] = cache_call[t].seen
                /\ cache_call[t].seen # NoEntry
                /\ ~Fresh(cache[cache_call[t].key].timestamp, now)
         ]_vars

\* Thread 1, inside _get_cache with the lock, has just deleted an entry it
\* found expired, after thread 2 had stored it and left.
C27_Witness ==
    /\ cache_lock = 1
    /\ cache_call[1].op = "get" /\ cache_call[1].pc = "leave"
    /\ cache_call[1].removed # NoEntry
    /\ now - cache_call[1].removed.timestamp >= cache_ttl
    /\ cache[cache_call[1].key] = NoEntry
    /\ cache_call[2].pc = "idle" /\ cache_call[2].op = "none"

-----------------------------------------------------------------------------
(* Claims about the scheduler's fields across runs, termination and the     *)
(* failure counter                                                          *)

InItemLoop == pc \in {"check", "wait", "reinit", "scrape", "delay", "close"}

\* The "waited" entries of the history of the current item.
WaitsOfItem == { k \in 1..Len(events) : events[k].e = "waited" }

\* C29: a run of process_current_month_tweets that has entered the item loop
\* ends (it returns or raises), whatever the extractor and the store answer;
\* the items handed to _scrape_single_tweet are the items of the list in
\* order, each once and none twice; an item has at most one backoff wait;
\* and a wait has at most blocking_max_wait_hours * 60 chunks of one minute.
C29_RunTerminates ==
    /\ [](/\ Len(trail) <= Len(posts)
          /\ \A k \in 1..Len(trail) : trail[k] = posts[k].tweet_id
          /\ \A j, k \in 1..Len(trail) : trail[j] = trail[k] => j = k
          /\ InItemLoop => Len(trail) \in {idx - 1, idx}
          /\ Cardinality(WaitsOfItem) <= 1
          /\ chunks_left >= 0
          /\ chunks_left <= blocking_max_wait_hours * 60)
    /\ (InItemLoop ~> (pc \in {"returned", "raised"}))

\* A run over two items has returned: the first item failed, the second had
\* to wait out a backoff (the clock is past the longest inter-item delay),
\* and both were handed to _scrape_single_tweet once.
C29_Witness ==
    /\ pc = "returned" /\ runs = 1
    /\ Len(posts) = 2 /\ Len(trail) = 2
    /\ stats.total = 2 /\ stats.failed >= 1
    /\ now >= chunk_size + (scrape_delay_seconds * 4) \div 5

\* C30: a call of _scrape_single_tweet in which the extraction failed, with a
\* message of the blocking class, with any other message, or by an exception,
\* adds exactly 1 to consecutive_failures, and everything else it and its
\* caller leave behind is the same in the three cases: last_success_time,
\* the configuration, the session and the store are untouched, the item is
\* counted as processed and failed, and the loop goes on.
C30_EveryFailureCounts ==
    [][ (pc = "scrape" /\ outcome' \in {"blocking", "transient", "exception"}) =>
          /\ consecutive_failures' = consecutive_failures + 1
          /\ last_success_time' = last_success_time
          /\ total_success' = total_success
          /\ total_processed' = total_processed + 1
          /\ total_failed' = total_failed + 1
          /\ <<cfgVars, sessionVars, x_posts, posts, idx>>' =
                <<cfgVars, sessionVars, x_posts, posts, idx>>
          /\ pc' = AfterItem(idx, Len(posts))
      ]_vars

\* The two items of a run have both failed, the second with a message that
\* is not of the blocking class, and the counter stands at 2.
C30_Witness ==
    /\ pc = "close" /\ outcome = "transient"
    /\ Len(trail) = 2
    /\ total_failed = 2 /\ total_success = 0
    /\ consecutive_failures = 2

-----------------------------------------------------------------------------
(* Claims about the order of the steps of an item, the chunks of a wait,    *)
(* the cache, the query, and the counters                                   *)

\* The rows of the items handed to _scrape_single_tweet in this run that hold
\* the metrics the extractor returned.
CommittedInRun ==
    { row \in x_posts :
        /\ \E k \in 1..Len(trail) : trail[k] = row.tweet_id
        /\ row.impressions = ScrapedMetrics("metrics").impressions
        /\ row.likes = ScrapedMetrics("metrics").likes }

C33_ExpiredEntryRemoved ==
    [][ (got'.key # NULL) =>
          LET key == got'.key
          IN  IF cache[key] # NoEntry /\ now - cache[key].timestamp >= cache_ttl
              THEN /\ ~got'.hit
                   /\ cache'[key] = NoEntry
                   /\ \A other \in CacheKeys \ {key} : cache'[other] = cache[other]
              ELSE /\ cache' = cache
                   /\ got'.hit <=> cache[key] # NoEntry
      ]_vars

\* A get has just found its entry expired and removed it, and the entry of
\* the other key, cached later, is still there.
C33_Witness ==
    /\ got.key # NULL /\ got.found /\ ~got.hit
    /\ got.age >= cache_ttl
    /\ cache[got.key] = NoEntry
    /\ \E other \in CacheKeys \ {got.key} :
          cache[other] # NoEntry /\ now - cache[other].timestamp < cache_ttl

\* The rows a query of the given period is to return.
RowsOfPeriod(rows, month, year) ==
    IF month # NULL /\ year # NullInt
    THEN {r \in rows : r.month = month /\ r.year = year}
    ELSE rows

\* C34, as claimed: a get_x_posts call returns, each once, exactly the rows
\* whose month and year are the ones given, or every row when none is given,
\* and a row observed later (last_updated) comes before a row observed
\* earlier.
C34_QueryByPeriodLatestFirst ==
    [][ (fetched' # fetched) =>
          LET rows == fetched'.rows
          IN  /\ {rows[k] : k \in 1..Len(rows)} =
                    RowsOfPeriod(x_posts, fetched'.month, fetched'.year)
              /\ Len(rows) = Cardinality(RowsOfPeriod(x_posts, fetched'.month,
                                                      fetched'.year))
              /\ \A i, j \in 1..Len(rows) :
                    i < j => rows[i].last_updated >= rows[j].last_updated
      ]_vars

\* C35: when a run over a non-empty work list has returned, the success and
\* failed counts it returned add up to its total, which is the length of the
\* list; and inside the loop, after each item, total_success + total_failed
\* = total_processed = the number of items handed to _scrape_single_tweet.
C35_CountersAddUp ==
    /\ (pc = "returned" /\ posts # <<>>) =>
          /\ stats.success + stats.failed = stats.total
          /\ stats.total = Len(posts)
    /\ InItemLoop =>
          /\ total_success + total_failed = total_processed
          /\ total_processed = Len(trail)
    /\ pc \in {"delay", "close"} => total_processed = idx

\* A run over two items has returned total 2 with one success and one
\* failure.
C35_Witness ==
    /\ pc = "returned" /\ Len(posts) = 2
    /\ stats.total = 2 /\ stats.success = 1 /\ stats.failed = 1

-----------------------------------------------------------------------------
(* Claims about the bot's scrape task, the items that fail without an       *)
(* extraction failure, the extractor sessions, the rate limiter and the     *)
(* owner reassignment                                                       *)

\* The invocations of scrape_posts_task that have set the flag and not ended.
ActiveTasks == { i \in TaskInvocations : task[i].pc = "sleeping" }

\* C36: scrape_lock is set exactly while an invocation that acquired it has
\* not ended: after the invocation returned, found no posts, raised or was
\* cancelled the flag is False; at most one invocation is active; an
\* invocation that finds the flag set leaves it as it is, and it finds it
\* set only while another invocation is active.
C36_ScrapeLockReleased ==
    /\ [](scrape_lock <=> ActiveTasks # {})
    /\ [](Cardinality(ActiveTasks) <= 1)
    /\ [][ \A i \in TaskInvocations :
             (task[i].pc = "idle" /\ task'[i].pc = "skipped") =>
                /\ scrape_lock' = scrape_lock
                /\ ActiveTasks # {}
                /\ ActiveTasks' = ActiveTasks
         ]_vars

\* One invocation was skipped while another was active; that one has since
\* ended by an exception or by returning, the flag was released, and a third
\* invocation has acquired it and is active.
C36_Witness ==
    \E a, b, c \in TaskInvocations :
        /\ task[a].pc = "skipped"
        /\ task[b].pc = "return" /\ task[b].posts # <<>>
        /\ task[c].pc = "sleeping"
        /\ scrape_lock

\* C37: a call of _scrape_single_tweet for an item without a URL, or one in
\* which the extractor returned metrics and the store update failed, is
\* counted as processed and failed and leaves consecutive_failures and
\* last_success_time as they were; for an item without a URL the extractor
\* is not called and neither the store nor the session changes.
C37_OtherFailuresNotCounted ==
    [][ (pc = "scrape" /\ outcome' \in {"missing_url", "store_failure"}) =>
          /\ total_failed' = total_failed + 1
          /\ total_processed' = total_processed + 1
          /\ total_success' = total_success
          /\ detectorVars' = detectorVars
          /\ outcome' = "missing_url" =>
                /\ posts[idx].Tweet_URL = ""
                /\ \A k \in 1..Len(events') : events'[k].e # "extract"
                /\ x_posts' = x_posts
                /\ sessionVars' = sessionVars
          /\ outcome' = "store_failure" =>
                \E k \in 1..Len(events') : events'[k].e = "extract"
      ]_vars

\* The second item of a run has just failed at the store update, after the
\* first failed at the extraction: two items failed, the failure counter
\* stands at 1.
C37_Witness ==
    /\ outcome = "store_failure"
    /\ pc = "close" /\ Len(trail) = 2
    /\ total_failed = 2 /\ total_processed = 2
    /\ consecutive_failures = 1


\* C38, as claimed: at every point of the scheduler's execution at most one
\* extractor session is open; an _init_scraper that installs a new session
\* has closed the one held before; and closing after a run, when the held
\* session is already closed (or none is held), changes nothing.
C38_AtMostOneSession ==
    /\ [](Cardinality(open_drivers) <= 1)
    /\ [][ (sessions' # sessions /\ scraper' # scraper) =>
             /\ scraper \notin open_drivers'
             /\ scraper' \in open_drivers' ]_vars
    /\ [][ ((pc \in {"returned", "raised"}) /\ scraper \notin open_drivers) =>
             sessionVars' = sessionVars ]_vars


\* the timestamps of a log younger than the window at time t
YoungerThanWindow(log, t) ==
    Len(SelectSeq(log, LAMBDA ts : t - ts < rate_limit_window))

\* the accepted messages in the window of rate_limit_window seconds that
\* starts at the i-th accepted message of a log
AcceptedInWindowFrom(log, i) ==
    Cardinality({ j \in 1..Len(log) :
                    log[j] >= log[i] /\ log[j] - log[i] < rate_limit_window })

AllButLast(log) == SubSeq(log, 1, Len(log) - 1)

\* C39: for each user at most submissions_per_hour (20) messages are accepted
\* in any window of 3600 seconds; a message is rejected exactly when 20
\* accepted messages of that user are younger than 3600 s at that moment; a
\* rejected message is not recorded (the call only drops the expired
\* timestamps); and a call changes nothing of any other user.
C39_RateLimit ==
    /\ [](\A u \in Users : \A i \in 1..Len(accepted_log[u]) :
             AcceptedInWindowFrom(accepted_log[u], i) <= submissions_per_hour)
    /\ [](rate_call # NoRateCall =>
            LET log == accepted_log[rate_call.user]
            IN  IF rate_call.is_allowed
                THEN /\ log # <<>>
                     /\ log[Len(log)] = rate_call.at
                     /\ YoungerThanWindow(AllButLast(log), rate_call.at)
                            < submissions_per_hour
                ELSE YoungerThanWindow(log, rate_call.at) = submissions_per_hour)
    /\ [][ \A u \in Users :
             (user_submission_timestamps'[u] # user_submission_timestamps[u]
                 \/ accepted_log'[u] # accepted_log[u]) =>
                /\ rate_call'.user = u
                /\ rate_call'.at = now
                /\ ~rate_call'.is_allowed =>
                      /\ accepted_log'[u] = accepted_log[u]
                      /\ user_submission_timestamps'[u] =
                            SelectSeq(user_submission_timestamps[u],
                                      LAMBDA ts : now - ts < rate_limit_window) ]_vars

\* User 1, 20 messages accepted at time 0, has just been rejected one second
\* before the window ends, after user 2 was accepted.
C39_Witness ==
    /\ rate_call = [user |-> 1, is_allowed |-> FALSE, at |-> rate_limit_window - 1]
    /\ now = rate_limit_window - 1
    /\ Len(accepted_log[1]) = submissions_per_hour
    /\ accepted_log[1][submissions_per_hour] = 0
    /\ accepted_log[2] # <<>>


\* C40: a call of update_x_post_ambassador(tweet_id, ambassador) leaves every
\* row with another tweet_id as it was, adds and removes no row, and changes
\* at most ambassador and last_updated of the row with that tweet_id (to the
\* new owner and the time of the call when it returns True, nothing when it
\* returns False); when no row has that tweet_id it returns False and the
\* table is unchanged.
C40_ReassignOwnerFrame ==
    [][ (last'.op = "update_x_post_ambassador"
           /\ (last' # last \/ x_posts' # x_posts)) =>
          LET hit == {r \in x_posts : r.tweet_id = last'.tweet_id}
          IN  /\ \A r \in x_posts \ hit : r \in x_posts'
              /\ Cardinality(x_posts') = Cardinality(x_posts)
              /\ \A r \in hit : \E q \in x_posts' :
                    /\ q = [r EXCEPT !.ambassador = q.ambassador,
                                     !.last_updated = q.last_updated]
                    /\ last'.result =>
                          /\ q.ambassador = last'.ambassador
                          /\ q.last_updated = now
                    /\ ~last'.result => q = r
              /\ hit = {} => (~last'.result /\ x_posts' = x_posts) ]_vars

\* A row with counts has just been given to another owner after the clock
\* moved, beside a row of the other owner that was written before.
C40_Witness ==
    /\ last.op = "update_x_post_ambassador"
    /\ last.result
    /\ now > 0
    /\ \E r \in x_posts :
          /\ r.tweet_id = last.tweet_id
          /\ r.ambassador = last.ambassador
          /\ r.last_updated = now
          /\ r.impressions > 0
    /\ \E r \in x_posts :
          /\ r.tweet_id # last.tweet_id
          /\ r.ambassador # last.ambassador
          /\ r.last_updated < now

=============================================================================
